---------------------------- MODULE Spec2Model ----------------------------
(***************************************************************************)
(* A model of the CARTA desktop launcher (src-tauri/src/lib.rs): the       *)
(* command-line parser, the backend option validator and the backend       *)
(* process supervisor (spawn, readiness polling, shutdown) as run() drives *)
(* them.                                                                   *)
(*                                                                         *)
(* Strings are sequences of one-character strings, so that prefix tests,   *)
(* splitting and number parsing are computed as the code computes them.    *)
(* Option<T> is a sequence of length 0 (None) or 1 (Some).                 *)
(***************************************************************************)
EXTENDS Integers, Sequences, FiniteSets, TLC

(***************************************************************************)
(* String constants of the source.                                         *)
(***************************************************************************)
BACKEND_LONG_OPTIONS ==
  << <<<<"-","-","h","e","l","p">>, "None">>,
     <<<<"-","-","v","e","r","s","i","o","n">>, "None">>,
     <<<<"-","-","v","e","r","b","o","s","i","t","y">>, "Required">>,
     <<<<"-","-","n","o","_","l","o","g">>, "None">>,
     <<<<"-","-","l","o","g","_","p","e","r","f","o","r","m","a","n","c","e">>, "None">>,
     <<<<"-","-","l","o","g","_","p","r","o","t","o","c","o","l","_","m","e","s","s","a","g","e","s">>, "None">>,
     <<<<"-","-","n","o","_","f","r","o","n","t","e","n","d">>, "None">>,
     <<<<"-","-","n","o","_","d","a","t","a","b","a","s","e">>, "None">>,
     <<<<"-","-","h","t","t","p","_","u","r","l","_","p","r","e","f","i","x">>, "Required">>,
     <<<<"-","-","n","o","_","b","r","o","w","s","e","r">>, "None">>,
     <<<<"-","-","b","r","o","w","s","e","r">>, "Required">>,
     <<<<"-","-","h","o","s","t">>, "Required">>,
     <<<<"-","-","p","o","r","t">>, "Required">>,
     <<<<"-","-","o","m","p","_","t","h","r","e","a","d","s">>, "Required">>,
     <<<<"-","-","t","o","p","_","l","e","v","e","l","_","f","o","l","d","e","r">>, "Required">>,
     <<<<"-","-","f","r","o","n","t","e","n","d","_","f","o","l","d","e","r">>, "Required">>,
     <<<<"-","-","e","x","i","t","_","t","i","m","e","o","u","t">>, "Required">>,
     <<<<"-","-","i","n","i","t","i","a","l","_","t","i","m","e","o","u","t">>, "Required">>,
     <<<<"-","-","i","d","l","e","_","t","i","m","e","o","u","t">>, "Required">>,
     <<<<"-","-","r","e","a","d","_","o","n","l","y","_","m","o","d","e">>, "None">>,
     <<<<"-","-","e","n","a","b","l","e","_","s","c","r","i","p","t","i","n","g">>, "None">>,
     <<<<"-","-","n","o","_","u","s","e","r","_","c","o","n","f","i","g">>, "None">>,
     <<<<"-","-","n","o","_","s","y","s","t","e","m","_","c","o","n","f","i","g">>, "None">>,
     <<<<"-","-","d","e","b","u","g","_","n","o","_","a","u","t","h">>, "None">>,
     <<<<"-","-","n","o","_","r","u","n","t","i","m","e","_","c","o","n","f","i","g">>, "None">>,
     <<<<"-","-","c","o","n","t","r","o","l","l","e","r","_","d","e","p","l","o","y","m","e","n","t">>, "None">>,
     <<<<"-","-","t","h","r","e","a","d","s">>, "Required">>,
     <<<<"-","-","b","a","s","e">>, "Required">>,
     <<<<"-","-","r","o","o","t">>, "Required">>,
     <<<<"-","-","n","o","_","h","t","t","p">>, "None">> >>
BACKEND_SHORT_OPTIONS ==
  << <<<<"-","h">>, "None">>,
     <<<<"-","v">>, "None">>,
     <<<<"-","p">>, "Required">>,
     <<<<"-","t">>, "Required">> >>
S_DashDash == <<"-","-">>
S_Dash == <<"-">>
S_Eq == <<"=">>
S_Inspect == <<"-","-","i","n","s","p","e","c","t">>
S_Help == <<"-","-","h","e","l","p">>
S_H == <<"-","h">>
S_Version == <<"-","-","v","e","r","s","i","o","n">>
S_V == <<"-","v">>
S_Port == <<"-","-","p","o","r","t">>
S_P == <<"-","p">>
S_PortEq == <<"-","-","p","o","r","t","=">>
S_PEq == <<"-","p","=">>
S_Psn == <<"-","p","s","n","_">>
S_MissingPort == <<"M","i","s","s","i","n","g"," ","v","a","l","u","e"," ","f","o","r"," ","-","-","p","o","r","t">>
S_InvalidPort == <<"I","n","v","a","l","i","d"," ","p","o","r","t"," ","n","u","m","b","e","r",":"," ">>
S_Unsupported == <<"U","n","s","u","p","p","o","r","t","e","d"," ","b","a","c","k","e","n","d"," ","o","p","t","i","o","n",":"," ">>
S_DidYouMean == <<"\n","D","i","d"," ","y","o","u"," ","m","e","a","n"," ">>
S_QMark == <<"?">>
S_RunWithHelp == <<"\n","R","u","n"," ","w","i","t","h"," ","-","-","h","e","l","p"," ","t","o"," ","s","e","e"," ","s","u","p","p","o","r","t","e","d"," ","o","p","t","i","o","n","s",".">>
S_BackendOption == <<"B","a","c","k","e","n","d"," ","o","p","t","i","o","n"," ">>
S_NoValue == <<" ","d","o","e","s"," ","n","o","t"," ","t","a","k","e"," ","a"," ","v","a","l","u","e">>
S_RequiresValue == <<" ","r","e","q","u","i","r","e","s"," ","a"," ","v","a","l","u","e">>
T_file == <<"f","i","l","e">>
T_bar == <<"b","a","r">>
T_foo == <<"-","-","f","o","o">>
T_weird == <<"-","w","e","i","r","d">>
T_fooEq == <<"-","-","f","o","o","=","1">>
T_3003 == <<"3","0","0","3">>
T_x == <<"x">>
T_port3003 == <<"-","-","p","o","r","t","=","3","0","0","3">>
T_psn == <<"-","p","s","n","_","0">>
T_no_log == <<"-","-","n","o","_","l","o","g">>
T_threads == <<"-","-","t","h","r","e","a","d","s">>
T_4 == <<"4">>
T_ver == <<"-","-","v","e","r">>
T_no_logEq == <<"-","-","n","o","_","l","o","g","=","1">>
T_threadsEq == <<"-","-","t","h","r","e","a","d","s","=","4">>
T_t == <<"-","t">>
T_70000 == <<"7","0","0","0","0">>
T_portx == <<"-","-","p","o","r","t","=","x">>
T_pEq80 == <<"-","p","=","8","0">>
T_plus80 == <<"+","8","0">>
T_no == <<"-","-","n","o">>
T_empty == <<>>
T_log_protocol == <<"-","-","l","o","g","_","p","r","o","t","o","c","o","l">>
T_no_logEqEmpty == <<"-","-","n","o","_","l","o","g","=">>
T_portportx == <<"-","-","p","o","r","t","=","-","-","p","o","r","t","=","x">>

(***************************************************************************)
(* Bounds of the model.                                                    *)
(***************************************************************************)
\* Longest argument list given to the parser and the validator.
MaxArgs == 3

(***************************************************************************)
(* String helpers (str::starts_with, contains, split_once,                 *)
(* trim_start_matches, u16::from_str).                                     *)
(***************************************************************************)
None == <<>>

Some(x) == <<x>>

TheOne(S) == CHOOSE x \in S : TRUE

StartsWith(s, p) ==
  /\ Len(s) >= Len(p)
  /\ SubSeq(s, 1, Len(p)) = p

Contains(s, c) ==
  \E i \in 1..Len(s) : s[i] = c

\* Whether sub occurs in s as a contiguous substring.
ContainsStr(s, sub) ==
  \E i \in 0..(Len(s) - Len(sub)) : SubSeq(s, i + 1, i + Len(sub)) = sub

\* Index of the first occurrence of character c in s, 0 when there is none.
FirstIndex(s, c) ==
  IF Contains(s, c) THEN CHOOSE i \in 1..Len(s) : s[i] = c /\ \A j \in 1..(i - 1) : s[j] # c
  ELSE 0

\* Mutant of SplitName: the name is split off but the inline value is not
\* reported.
SplitNameNoInline(arg) ==
  LET k == FirstIndex(arg, "=")
  IN IF k = 0 THEN [name |-> arg, has_inline_value |-> FALSE]
     ELSE [name |-> SubSeq(arg, 1, k - 1), has_inline_value |-> FALSE]

\* str::split_once('=').map(|(n, _)| (n, true)).unwrap_or((arg, false))
SplitName(arg) ==
  LET k == FirstIndex(arg, "=")
  IN IF k = 0 THEN [name |-> arg, has_inline_value |-> FALSE]
     ELSE [name |-> SubSeq(arg, 1, k - 1), has_inline_value |-> TRUE]

\* str::trim_start_matches(p): removes every repeated leading occurrence of p.
RECURSIVE TrimStartMatches(_, _)
TrimStartMatches(s, p) ==
  IF Len(p) > 0 /\ StartsWith(s, p) THEN TrimStartMatches(SubSeq(s, Len(p) + 1, Len(s)), p)
  ELSE s

Digits == <<"0", "1", "2", "3", "4", "5", "6", "7", "8", "9">>

IsDigit(c) ==
  \E d \in 1..10 : Digits[d] = c

DigitValue(c) ==
  (CHOOSE d \in 1..10 : Digits[d] = c) - 1

U16_MAX == 65535

\* Decimal value of a digit string, saturating just above U16_MAX (overflow).
RECURSIVE DecimalValue(_, _)
DecimalValue(s, acc) ==
  IF s = <<>> THEN acc
  ELSE LET v == acc * 10 + DigitValue(Head(s))
       IN IF v > U16_MAX THEN U16_MAX + 1 ELSE DecimalValue(Tail(s), v)

\* value.parse::<u16>(): an optional leading '+', then one or more decimal
\* digits, in range.  Some(n) on success, None on any error.
ParseU16(value) ==
  LET digits == IF Len(value) > 0 /\ Head(value) = "+" THEN Tail(value) ELSE value
  IN IF digits = <<>> \/ \E i \in 1..Len(digits) : ~IsDigit(digits[i]) THEN None
     ELSE IF DecimalValue(digits, 0) > U16_MAX THEN None
     ELSE Some(DecimalValue(digits, 0))

(***************************************************************************)
(* Option schema and validator.                                            *)
(***************************************************************************)
\* .iter().find(|(name, _)| *name == option).map(|(_, kind)| *kind)
FindKind(table, option) ==
  IF \E i \in 1..Len(table) : table[i][1] = option
  THEN Some(table[CHOOSE i \in 1..Len(table) :
                    table[i][1] = option /\ \A j \in 1..(i - 1) : table[j][1] # option][2])
  ELSE None

backend_option_kind(option) ==
  IF StartsWith(option, S_DashDash) THEN FindKind(BACKEND_LONG_OPTIONS, option)
  ELSE IF StartsWith(option, S_Dash) THEN FindKind(BACKEND_SHORT_OPTIONS, option)
  ELSE None

\* The known long options that start with `option`, in table order.
Candidates(option) ==
  SelectSeq([i \in 1..Len(BACKEND_LONG_OPTIONS) |-> BACKEND_LONG_OPTIONS[i][1]],
            LAMBDA known : StartsWith(known, option))

\* Mutant of unknown_backend_option_message: the first candidate is suggested
\* whenever there is one, also when several options match.
unknown_backend_option_message_any(option) ==
  LET base == S_Unsupported \o option
      hint == IF StartsWith(option, S_DashDash) /\ Len(Candidates(option)) >= 1
              THEN S_DidYouMean \o Candidates(option)[1] \o S_QMark
              ELSE <<>>
  IN base \o hint \o S_RunWithHelp

\* Mutant of unknown_backend_option_message: the "Run with --help" hint is
\* appended only when no suggestion is made.
unknown_backend_option_message_alt(option) ==
  LET base == S_Unsupported \o option
      hint == IF StartsWith(option, S_DashDash) /\ Len(Candidates(option)) = 1
              THEN S_DidYouMean \o Candidates(option)[1] \o S_QMark
              ELSE S_RunWithHelp
  IN base \o hint

unknown_backend_option_message(option) ==
  LET base == S_Unsupported \o option
      hint == IF StartsWith(option, S_DashDash) /\ Len(Candidates(option)) = 1
              THEN S_DidYouMean \o Candidates(option)[1] \o S_QMark
              ELSE <<>>
  IN base \o hint \o S_RunWithHelp

\* Mutant of ValidateLoop: a value-requiring option takes the next token as
\* its value whatever its shape.
RECURSIVE ValidateLoopAnyValue(_, _)
ValidateLoopAnyValue(args, i) ==
  IF i > Len(args) THEN None
  ELSE LET arg == args[i] IN
    IF arg = S_DashDash THEN None
    ELSE IF StartsWith(arg, S_DashDash) \/ (StartsWith(arg, S_Dash) /\ arg # S_Dash)
    THEN LET name == SplitName(arg).name
             has_inline_value == SplitName(arg).has_inline_value
             kind == backend_option_kind(name)
         IN IF kind = None THEN Some(unknown_backend_option_message(name))
            ELSE IF has_inline_value /\ kind[1] = "None"
            THEN Some(S_BackendOption \o name \o S_NoValue)
            ELSE IF kind[1] = "Required" /\ ~has_inline_value
            THEN IF i + 1 > Len(args) THEN Some(S_BackendOption \o name \o S_RequiresValue)
                 ELSE ValidateLoopAnyValue(args, i + 2)
            ELSE ValidateLoopAnyValue(args, i + 1)
    ELSE ValidateLoopAnyValue(args, i + 1)

\* Ok(()) is None, Err(message) is Some(message).
RECURSIVE ValidateLoop(_, _)
ValidateLoop(args, i) ==
  IF i > Len(args) THEN None
  ELSE LET arg == args[i] IN
    IF arg = S_DashDash THEN None
    ELSE IF StartsWith(arg, S_DashDash) \/ (StartsWith(arg, S_Dash) /\ arg # S_Dash)
    THEN LET name == SplitName(arg).name
             has_inline_value == SplitName(arg).has_inline_value
             kind == backend_option_kind(name)
         IN IF kind = None THEN Some(unknown_backend_option_message(name))
            ELSE IF has_inline_value /\ kind[1] = "None"
            THEN Some(S_BackendOption \o name \o S_NoValue)
            ELSE IF kind[1] = "Required" /\ ~has_inline_value
            THEN IF i + 1 > Len(args) THEN Some(S_BackendOption \o name \o S_RequiresValue)
                 ELSE IF StartsWith(args[i + 1], S_Dash)
                 THEN Some(S_BackendOption \o name \o S_RequiresValue)
                 ELSE ValidateLoop(args, i + 2)
            ELSE ValidateLoop(args, i + 1)
    ELSE ValidateLoop(args, i + 1)

\* Mutant of validate_backend_args: separators are removed and everything
\* else is validated.
validate_backend_args_through(args) ==
  ValidateLoop(SelectSeq(args, LAMBDA a : a # S_DashDash), 1)

validate_backend_args(args) ==
  ValidateLoop(args, 1)

(***************************************************************************)
(* Command-line parser.                                                    *)
(***************************************************************************)
\* CliArgs::default()
CliArgsDefault ==
  [input_path |-> None, extra_args |-> <<>>, inspect |-> FALSE, help |-> FALSE,
   version |-> FALSE, port |-> None, port_error |-> None]

\* Mutant of parse_port: the value is parsed as a signed 16-bit integer.
parse_port_i16(value, result) ==
  IF ParseU16(value) # None /\ ParseU16(value)[1] <= 32767
  THEN [ok |-> TRUE, result |-> [result EXCEPT !.port = ParseU16(value)]]
  ELSE [ok |-> FALSE, result |-> [result EXCEPT !.port_error = Some(S_InvalidPort \o value)]]

\* Mutant of parse_port: the error message does not include the value.
parse_port_bare_message(value, result) ==
  IF ParseU16(value) # None
  THEN [ok |-> TRUE, result |-> [result EXCEPT !.port = ParseU16(value)]]
  ELSE [ok |-> FALSE, result |-> [result EXCEPT !.port_error = Some(S_InvalidPort)]]

\* Mutant of parse_port: a value that does not parse is reported but the
\* caller is told to go on.
parse_port_continue(value, result) ==
  IF ParseU16(value) # None
  THEN [ok |-> TRUE, result |-> [result EXCEPT !.port = ParseU16(value)]]
  ELSE [ok |-> TRUE, result |-> [result EXCEPT !.port_error = Some(S_InvalidPort \o value)]]

\* fn parse_port: on success sets port and returns true, on failure replaces
\* port_error and returns false.
parse_port(value, result) ==
  IF ParseU16(value) # None
  THEN [ok |-> TRUE, result |-> [result EXCEPT !.port = ParseU16(value)]]
  ELSE [ok |-> FALSE, result |-> [result EXCEPT !.port_error = Some(S_InvalidPort \o value)]]


\* Mutant of AfterSeparator: every token after "--" goes to extra_args, the
\* input path is never set.
AfterSeparatorAllExtra(args, i, result) ==
  [result EXCEPT !.extra_args = @ \o SubSeq(args, i, Len(args))]

\* The "--" arm: `for rest in iter { ... }`, over the tokens from index i on.
RECURSIVE AfterSeparator(_, _, _)
AfterSeparator(args, i, result) ==
  IF i > Len(args) THEN result
  ELSE IF result.input_path = None
  THEN AfterSeparator(args, i + 1, [result EXCEPT !.input_path = Some(args[i])])
  ELSE AfterSeparator(args, i + 1, [result EXCEPT !.extra_args = Append(@, args[i])])

\* Mutant of UnknownFlag: an unrecognised flag never takes the next token as
\* its value.
UnknownFlagNoValue(args, i, result) ==
  [next |-> i + 1, result |-> [result EXCEPT !.extra_args = Append(@, args[i])]]

\* The `s if s.starts_with('-')` arm: an unrecognised flag, with the next
\* token as its value when it has no '=' and the next token is not a flag.
UnknownFlag(args, i, result) ==
  LET pushed == [result EXCEPT !.extra_args = Append(@, args[i])]
  IN IF ~Contains(args[i], "=") /\ i + 1 <= Len(args) /\ ~StartsWith(args[i + 1], S_Dash)
     THEN [next |-> i + 2, result |-> [pushed EXCEPT !.extra_args = Append(@, args[i + 1])]]
     ELSE [next |-> i + 1, result |-> pushed]

\* `while let Some(arg) = iter.next() { match arg.as_str() { ... } }`
RECURSIVE ParseLoop(_, _, _)
ParseLoop(args, i, result) ==
  IF i > Len(args) THEN result
  ELSE LET arg == args[i] IN
    IF arg = S_DashDash THEN AfterSeparator(args, i + 1, result)
    ELSE IF arg = S_Inspect THEN ParseLoop(args, i + 1, [result EXCEPT !.inspect = TRUE])
    ELSE IF arg = S_Help \/ arg = S_H THEN ParseLoop(args, i + 1, [result EXCEPT !.help = TRUE])
    ELSE IF arg = S_Version \/ arg = S_V
    THEN ParseLoop(args, i + 1, [result EXCEPT !.version = TRUE])
    ELSE IF arg = S_Port \/ arg = S_P
    THEN IF i + 1 > Len(args) THEN [result EXCEPT !.port_error = Some(S_MissingPort)]
         ELSE LET p == parse_port(args[i + 1], result)
              IN IF p.ok THEN ParseLoop(args, i + 2, p.result) ELSE p.result
    ELSE IF StartsWith(arg, S_PortEq)
    THEN LET p == parse_port(TrimStartMatches(arg, S_PortEq), result)
         IN IF p.ok THEN ParseLoop(args, i + 1, p.result) ELSE p.result
    ELSE IF StartsWith(arg, S_PEq)
    THEN LET p == parse_port(TrimStartMatches(arg, S_PEq), result)
         IN IF p.ok THEN ParseLoop(args, i + 1, p.result) ELSE p.result
    ELSE IF StartsWith(arg, S_Psn) THEN ParseLoop(args, i + 1, result)
    ELSE IF StartsWith(arg, S_Dash)
    THEN ParseLoop(args, UnknownFlag(args, i, result).next, UnknownFlag(args, i, result).result)
    ELSE IF result.input_path = None
    THEN ParseLoop(args, i + 1, [result EXCEPT !.input_path = Some(arg)])
    ELSE ParseLoop(args, i + 1, [result EXCEPT !.extra_args = Append(@, arg)])

\* Mutant of parse_cli_args_from: the first argument is skipped as if it were
\* the program name.
parse_cli_args_skip_first(args) ==
  ParseLoop(args, 2, CliArgsDefault)

parse_cli_args_from(args) ==
  ParseLoop(args, 1, CliArgsDefault)

(***************************************************************************)
(* Program constants and bounds of the supervisor model.  Time is in       *)
(* milliseconds.                                                           *)
(***************************************************************************)
BACKEND_TIMEOUT_SECS == 60

CONNECT_TIMEOUT_MS == 250

CONNECT_RETRY_MS == 100

\* Duration::from_secs(BACKEND_TIMEOUT_SECS), in milliseconds.
Timeout == BACKEND_TIMEOUT_SECS * 1000

\* thread::sleep sleeps at least the requested time; it may oversleep, here
\* up to MaxSleepFactor times the requested time.
MaxSleepFactor == 8

\* Most windows open at once.
MaxWindows == 2

\* The Quit menu item is handled while fewer than MaxQuits shutdown_backend
\* calls have completed.
MaxQuits == 2

\* Most shutdown_backend calls one thread makes in the concurrent harness.
MaxCalls == 2

\* A failed connect returns at once (refused) or after the connect timeout.
ProbeDurations == {0, CONNECT_TIMEOUT_MS}

SleepDurations == {CONNECT_RETRY_MS * k : k \in 1..MaxSleepFactor}

\* portpicker::pick_unused_port(): some free port.
PickablePorts == {15000}

Platforms == {"linux", "macos", "windows"}

\* The thread that runs run() and the event loop, and two more threads that
\* call shutdown_backend in the concurrent harness.
Threads == {"main", "menu", "exit"}

\* Argument lists the launcher is started with in the supervisor model.
RunArgvs ==
  { <<>>,
    <<T_port3003, T_file>>,
    <<T_foo>>,
    <<T_threads>>,
    <<S_Port, T_x>>,
    <<S_Help>>,
    <<S_Version, T_foo>> }

\* Tokens the parser and the validator are exercised with.
Tokens ==
  { S_DashDash, S_Inspect, S_Help, S_V, S_Port, S_P, T_port3003, T_portx, T_psn,
    T_foo, T_weird, T_fooEq, T_file, T_3003, T_x, T_no_log, T_threads, T_4,
    T_70000, T_portportx }

RECURSIVE SeqsUpTo(_, _)
SeqsUpTo(S, n) ==
  IF n = 0 THEN {<<>>}
  ELSE SeqsUpTo(S, n - 1) \cup {Append(s, x) : s \in {q \in SeqsUpTo(S, n - 1) : Len(q) = n - 1}, x \in S}

ArgLists == SeqsUpTo(Tokens, MaxArgs)

VARIABLES
  argv,          \* the launcher's arguments (std::env::args().skip(1))
  cli,           \* CliArgs, the parse result
  vres,          \* result of validate_backend_args: [done, err]
  cpc,           \* position of the pure-function harness
  platform,      \* target_os of the build
  foreign,       \* another local process already accepts connections on the port
  backend_port,  \* AppState.backend_port
  resources,     \* what exists under the resource directory, and what the machine allows
  link,          \* what is at the symlink location /tmp/carta-etc
  spawnError,    \* the Err spawn_backend returned, None if it has not failed
  inst,         \* per launcher instance, its position in resolve_etc_path and its result
  linkTarget,   \* target of the symlink /tmp/carta-etc as two launchers see it
  within,       \* result of the last wsl_path_is_within call, None before it
  launcherOut,  \* per launcher stream, the lines printed to it
  childWrote,   \* per stream, every line the child has written
  drain,        \* per stream, the drain thread: none, running or ended
  pipeOpen,     \* per stream, whether the child still holds the write end
  pipeLines,    \* per stream, the lines written to the pipe and not yet read
  help_result,  \* outcome of run_backend_help, none while it has not been called
  inputKind,    \* what the input path names on the machine
  current_dir,  \* std::env::current_dir() of the launcher
  command,      \* the command spawn_backend built, None before that
  top_level_path, \* the top_level_path of run(), <<>> before it is resolved
  base_dir,     \* the base directory run() hands to spawn_backend, <<>> before it is resolved
  etcResults,   \* results of the resolve_casa_path calls made so far
  pc,            \* position of each thread
  caller,        \* call site of the shutdown_backend call each thread is in
  taken,         \* shutdown_backend's local `child` (the handle it took), per thread
  calls,         \* shutdown_backend calls started per thread (concurrent harness)
  backend,       \* AppState.backend: contents of the Mutex<Option<Child>>
  lockHolder,    \* thread holding AppState.backend's lock, or "free"
  child,         \* the backend process: none, running, exited (not reaped), reaped
  listening,     \* the backend accepts connections on backend_port
  elapsed,       \* start.elapsed() in wait_for_backend, in ms (0 outside it)
  lastError,     \* wait_for_backend's last_error
  waitResult,    \* wait_for_backend's return value
  earlyExit,     \* the backend exited while wait_for_backend was polling
  windows,       \* number of open windows
  readyPending,  \* RunEvent::Ready not yet delivered (macOS handler)
  exitRequested, \* app.exit(0) was called, RunEvent::ExitRequested is pending
  exitCode,      \* the launcher's exit code, -1 while it runs
  spawns,        \* children created by spawn_backend
  kills,         \* Child::kill calls issued
  waits,         \* Child::wait calls returned
  sdCalls,       \* shutdown_backend calls completed
  overwrote      \* spawn_backend stored a child into an occupied handle

cliVars == <<argv, cli, vres, cpc>>

envVars == <<platform, foreign, backend_port, resources, link, spawnError, inst, linkTarget, within, launcherOut, childWrote,
             drain, pipeOpen, pipeLines, help_result, inputKind, current_dir, command,
             top_level_path, base_dir, etcResults>>

threadVars == <<pc, caller, taken, calls>>

handleVars == <<backend, lockHolder>>

procVars == <<child, listening>>

waitVars == <<elapsed, lastError, waitResult, earlyExit>>

guiVars == <<windows, readyPending, exitRequested>>

countVars == <<spawns, kills, waits, sdCalls, overwrote>>

vars ==
  <<argv, cli, vres, cpc, platform, foreign, backend_port, resources, link, spawnError, inst, linkTarget, within,
    launcherOut, childWrote, drain, pipeOpen, pipeLines, help_result, inputKind, current_dir,
    command, top_level_path, base_dir, etcResults,
    pc, caller, taken, calls, backend, lockHolder, child, listening, elapsed, lastError, waitResult, earlyExit,
    windows, readyPending, exitRequested, exitCode, spawns, kills, waits, sdCalls,
    overwrote>>

Running == exitCode = -1

Goto(t, label) == pc' = [pc EXCEPT ![t] = label]

\* std::process::exit(code), or the event loop ending with that code.
Exit(t, code) ==
  /\ Goto(t, "exited")
  /\ exitCode' = code

WaitPending == [kind |-> "Pending", secs |-> 0, detail |-> None, measured |-> 0]

\* n.to_string(): the decimal digits of n, no sign, no leading zero.
RECURSIVE ToDecimal(_)
ToDecimal(n) ==
  IF n < 10 THEN <<Digits[n + 1]>>
  ELSE ToDecimal(n \div 10) \o <<Digits[(n % 10) + 1]>>

(***************************************************************************)
(* Paths.  A path is the text the program holds: a sequence of characters. *)
(***************************************************************************)
S_Slash == <<"/">>
S_Backslash == <<"\\">>
S_Mnt == <<"/","m","n","t","/">>
S_ExtendedPrefix == <<"\\","\\","?","\\">>
S_TopLevelFolder == <<"-","-","t","o","p","_","l","e","v","e","l","_","f","o","l","d","e","r">>
S_TopLevelFolderEq == <<"-","-","t","o","p","_","l","e","v","e","l","_","f","o","l","d","e","r","=">>
S_FrontendFolder == <<"-","-","f","r","o","n","t","e","n","d","_","f","o","l","d","e","r">>
S_FrontendFolderEq == <<"-","-","f","r","o","n","t","e","n","d","_","f","o","l","d","e","r","=">>
S_NoBrowser == <<"-","-","n","o","_","b","r","o","w","s","e","r">>
S_UpperCase == <<"A","B","C","D","E","F","G","H","I","J","K","L","M","N","O","P","Q","R","S","T","U","V","W","X","Y","Z">>
S_LowerCase == <<"a","b","c","d","e","f","g","h","i","j","k","l","m","n","o","p","q","r","s","t","u","v","w","x","y","z">>

\* The number of occurrences of character c in s.
RECURSIVE CountChar(_, _)
CountChar(s, c) ==
  IF s = <<>> THEN 0
  ELSE (IF s[1] = c THEN 1 ELSE 0) + CountChar(SubSeq(s, 2, Len(s)), c)

\* s.split(c): the fields of s between the occurrences of c.
RECURSIVE SplitOn(_, _)
SplitOn(s, c) ==
  IF ~Contains(s, c) THEN <<s>>
  ELSE <<SubSeq(s, 1, FirstIndex(s, c) - 1)>>
       \o SplitOn(SubSeq(s, FirstIndex(s, c) + 1, Len(s)), c)

\* s.trim_end_matches(c)
RECURSIVE TrimEndMatches(_, _)
TrimEndMatches(s, c) ==
  IF s # <<>> /\ s[Len(s)] = c THEN TrimEndMatches(SubSeq(s, 1, Len(s) - 1), c) ELSE s

\* s.trim(), for the one kind of white space the model's texts have.
RECURSIVE TrimStart(_)
TrimStart(s) == IF s # <<>> /\ s[1] = " " THEN TrimStart(SubSeq(s, 2, Len(s))) ELSE s

Trim(s) == TrimEndMatches(TrimStart(s), " ")

\* s.replace(a, b) for single characters.
ReplaceChar(s, a, b) == [i \in 1..Len(s) |-> IF s[i] = a THEN b ELSE s[i]]

\* char::to_ascii_lowercase
ToAsciiLowercase(c) ==
  IF Contains(S_UpperCase, c) THEN S_LowerCase[FirstIndex(S_UpperCase, c)] ELSE c

\* The separator characters of the platform's paths; the first one is
\* MAIN_SEPARATOR.
Separators(plat) == IF plat = "windows" THEN <<"\\", "/">> ELSE <<"/">>

IsSeparator(plat, c) == Contains(Separators(plat), c)

\* Path::is_absolute
IsAbsolute(plat, p) ==
  IF plat = "windows"
  THEN \/ Len(p) >= 3 /\ p[2] = ":" /\ IsSeparator(plat, p[3])
       \/ Len(p) >= 2 /\ p[1] = "\\" /\ p[2] = "\\"
  ELSE StartsWith(p, S_Slash)

\* Path::join: a relative path is appended after a separator, an absolute
\* one replaces the path.
PathJoin(plat, a, b) ==
  IF IsAbsolute(plat, b) THEN b
  ELSE IF a # <<>> /\ IsSeparator(plat, a[Len(a)]) THEN a \o b
  ELSE a \o <<Separators(plat)[1]>> \o b

\* Index of the last separator of p, 0 when it has none.
LastSeparator(plat, p) ==
  IF \E i \in 1..Len(p) : IsSeparator(plat, p[i])
  THEN CHOOSE i \in 1..Len(p) :
         IsSeparator(plat, p[i]) /\ \A j \in (i + 1)..Len(p) : ~IsSeparator(plat, p[j])
  ELSE 0

\* Path::parent of a path that has a final component: the path without that
\* component, keeping the root.
PathParent(plat, p) ==
  LET i == LastSeparator(plat, p)
  IN IF i = 0 THEN <<>>
     ELSE IF i = 1 \/ p[i - 1] = ":" THEN SubSeq(p, 1, i)
     ELSE SubSeq(p, 1, i - 1)

\* Path::components: the root, then the names between separators; empty
\* names and "." are dropped, ".." is kept.
PathComponents(plat, p) ==
  LET unified == [i \in 1..Len(p) |-> IF IsSeparator(plat, p[i]) THEN "/" ELSE p[i]]
      names == SplitOn(unified, "/")
  IN (IF unified # <<>> /\ unified[1] = "/" THEN <<S_Slash>> ELSE <<>>)
     \o SelectSeq(names, LAMBDA n : n # <<>> /\ n # <<".">>)

\* win_to_wsl_path: C:\path\to\file becomes /mnt/c/path/to/file; None for a
\* path without a drive letter.
win_to_wsl_path(win_path) ==
  LET trimmed == Trim(win_path)
      stripped == IF StartsWith(trimmed, S_ExtendedPrefix)
                  THEN SubSeq(trimmed, Len(S_ExtendedPrefix) + 1, Len(trimmed))
                  ELSE trimmed
  IN TheOne({ IF Len(path) < 2 THEN None
              ELSE IF path[2] # ":" THEN None
              ELSE Some(S_Mnt \o <<ToAsciiLowercase(path[1])>>
                        \o ReplaceChar(SubSeq(path, 3, Len(path)), "\\", "/"))
              : path \in {stripped} })

is_wsl_path_str(path) == StartsWith(path, S_Slash)

\* to_wsl_path_str: Some(path) for Ok, None for the "Failed to convert path
\* to WSL format" error.
to_wsl_path_str(path) ==
  IF is_wsl_path_str(path) THEN Some(path) ELSE win_to_wsl_path(path)

wsl_parent_path(path) ==
  LET trimmed == TrimEndMatches(path, "/")
  IN IF trimmed = <<>> THEN S_Slash
     ELSE IF LastSeparator("linux", trimmed) <= 1 THEN S_Slash
     ELSE SubSeq(trimmed, 1, LastSeparator("linux", trimmed) - 1)

\* Mutant of normalize_wsl_arg_path: a value in WSL form is joined to the
\* working directory and converted like any other.
normalize_wsl_arg_path_always(value, cwd) ==
  to_wsl_path_str(PathJoin("windows", cwd, value))

\* normalize_wsl_arg_path: Some(path) for Ok, None for Err.
normalize_wsl_arg_path(value, cwd) ==
  IF is_wsl_path_str(value) THEN Some(value)
  ELSE to_wsl_path_str(PathJoin("windows", cwd, value))

\* Mutant of wsl_path_is_within: a plain text prefix counts as containment.
wsl_path_is_within_prefix(base0, top0) ==
  LET base == TrimEndMatches(base0, "/")
      top == TrimEndMatches(top0, "/")
  IN \/ base = top
     \/ StartsWith(base, top)

wsl_path_is_within(base0, top0) ==
  LET base == TrimEndMatches(base0, "/")
      top == TrimEndMatches(top0, "/")
  IN \/ base = top
     \/ /\ StartsWith(base, top)
        /\ Len(base) > Len(top)
        /\ base[Len(top) + 1] = "/"

\* is_path_within_top_level: on Windows both paths in WSL form, on unix
\* base.strip_prefix(top_level).is_ok(), which compares components.
is_path_within_top_level(plat, base, top_level) ==
  IF plat = "windows"
  THEN /\ to_wsl_path_str(base) # None
       /\ to_wsl_path_str(top_level) # None
       /\ wsl_path_is_within(to_wsl_path_str(base)[1], to_wsl_path_str(top_level)[1])
  ELSE StartsWith(PathComponents(plat, base), PathComponents(plat, top_level))

ensure_base_dir_within_top_level(plat, base, top_level) ==
  IF is_path_within_top_level(plat, base, top_level) THEN base ELSE top_level

\* resolve_top_level_folder: the first non-empty value of --top_level_folder
\* in the passthrough list, None when there is none.
RECURSIVE TopLevelLoop(_, _)
TopLevelLoop(args, i) ==
  IF i > Len(args) THEN None
  ELSE IF args[i] = S_TopLevelFolder
  THEN IF i + 1 <= Len(args) /\ args[i + 1] # <<>> THEN Some(args[i + 1])
       ELSE TopLevelLoop(args, i + 2)
  ELSE IF StartsWith(args[i], S_TopLevelFolderEq) /\ Len(args[i]) > Len(S_TopLevelFolderEq)
  THEN Some(SubSeq(args[i], Len(S_TopLevelFolderEq) + 1, Len(args[i])))
  ELSE TopLevelLoop(args, i + 1)

resolve_top_level_folder(extra_args) == TopLevelLoop(extra_args, 1)

\* resolve_top_level_path, once the working directory cwd has been read.
resolve_top_level_path(plat, value, cwd) ==
  IF value = <<>> THEN S_Slash
  ELSE IF plat = "windows" /\ is_wsl_path_str(value) THEN value
  ELSE PathJoin(plat, cwd, value)

\* The kinds of thing a path may name on the machine.
FileKinds == {"file", "dir", "other", "missing"}

\* should_default_to_home, for a working directory that is neither inside a
\* macOS application bundle nor an AppImage mount.
should_default_to_home(dir) == dir = S_Slash

\* resolve_base_directory, given the working directory, home_dir() and what
\* the input path names: [err, path].
resolve_base_directory(plat, input_path, cwd, home, kind) ==
  IF input_path # None
  THEN IF plat = "windows" /\ is_wsl_path_str(input_path[1])
       THEN IF kind = "file" THEN [err |-> None, path |-> wsl_parent_path(input_path[1])]
            ELSE IF kind = "dir" THEN [err |-> None, path |-> input_path[1]]
            ELSE [err |-> Some("Requested file or directory does not exist"), path |-> <<>>]
       ELSE LET candidate == PathJoin(plat, cwd, input_path[1])
            IN IF kind = "missing"
               THEN [err |-> Some("Requested file or directory does not exist"), path |-> <<>>]
               ELSE IF kind = "file"
               THEN [err |-> None,
                     path |-> IF PathParent(plat, candidate) = <<>> THEN candidate
                              ELSE PathParent(plat, candidate)]
               ELSE IF kind = "dir" THEN [err |-> None, path |-> candidate]
               ELSE [err |-> Some("Requested path is neither a file nor a directory"),
                     path |-> <<>>]
  ELSE IF should_default_to_home(cwd)
  THEN IF home # None THEN [err |-> None, path |-> home[1]]
       ELSE [err |-> Some("HOME directory not found"), path |-> <<>>]
  ELSE [err |-> None, path |-> cwd]

\* The working directory and the home directory of the machine.
S_CwdUnix == <<"/","d">>
S_CwdWin == <<"C",":","\\","d">>
S_HomeUnix == <<"/","h">>
S_HomeWin == <<"C",":","\\","h">>

CwdText(plat) == IF plat = "windows" THEN S_CwdWin ELSE S_CwdUnix

HomeText(plat) == IF plat = "windows" THEN S_HomeWin ELSE S_HomeUnix

(***************************************************************************)
(* The bundled resources and the symlink location.                         *)
(***************************************************************************)
\* Everything is where the launcher looks for it, the paths have no space
\* and convert to WSL form, and the symlink location can be written.
ResourcesPresent ==
  [resource_dir |-> TRUE, backend |-> TRUE, frontend |-> TRUE, etc |-> TRUE,
   wsl_paths |-> TRUE, etc_space |-> FALSE, link_writable |-> TRUE, libs |-> FALSE]

\* resource_dir: app.path().resource_dir() is Ok; backend, frontend, etc:
\* the path exists; wsl_paths: the resource and base paths are drive-letter
\* paths win_to_wsl_path converts (Windows); etc_space: the resolved etc
\* path contains a space; link_writable: the launcher may remove and create
\* /tmp/carta-etc; libs: backend/libs exists.
ResourceStates ==
  [resource_dir : BOOLEAN, backend : BOOLEAN, frontend : BOOLEAN, etc : BOOLEAN,
   wsl_paths : BOOLEAN, etc_space : BOOLEAN, link_writable : BOOLEAN, libs : BOOLEAN]

\* Nothing there, a symlink to the resolved etc path, a symlink to something
\* else, or something that is not a symlink.  A symlink to something else is
\* "stale_dir" when its target is a directory the launcher may create an
\* entry named etc in, and "stale" otherwise (dangling, a file, a directory
\* that is read-only or already has such an entry).
LinkStates == {"absent", "current", "stale", "stale_dir", "occupied"}

\* The installations the whole launcher run is explored on: a complete one,
\* one without the frontend directory and one without the backend binary.
RunResources ==
  {ResourcesPresent, [ResourcesPresent EXCEPT !.frontend = FALSE],
   [ResourcesPresent EXCEPT !.backend = FALSE]}

(***************************************************************************)
(* Initial states.                                                         *)
(***************************************************************************)
\* The two pipes of the child (Stdio::piped()).
Streams == {"stdout", "stderr"}

\* Two launcher instances started on one machine from two installations.
Launchers == {"first", "second"}

SupervisorInit ==
  /\ spawnError = None
  /\ inst = [l \in Launchers |-> [pc |-> "idle", result |-> None]]
  /\ linkTarget = "absent"
  /\ within = None
  /\ launcherOut = [s \in Streams |-> <<>>]
  /\ childWrote = [s \in Streams |-> <<>>]
  /\ drain = [s \in Streams |-> "none"]
  /\ pipeOpen = [s \in Streams |-> FALSE]
  /\ pipeLines = [s \in Streams |-> <<>>]
  /\ help_result = "none"
  /\ inputKind = "file"
  /\ command = None
  /\ top_level_path = <<>>
  /\ base_dir = <<>>
  /\ etcResults = <<>>
  /\ platform \in Platforms
  /\ current_dir = CwdText(platform)
  /\ foreign \in BOOLEAN
  /\ backend_port = 0
  /\ caller = [t \in Threads |-> "none"]
  /\ taken = [t \in Threads |-> FALSE]
  /\ calls = [t \in Threads |-> 0]
  /\ backend = "None"
  /\ lockHolder = "free"
  /\ child = "none"
  /\ listening = FALSE
  /\ elapsed = 0
  /\ lastError = None
  /\ waitResult = WaitPending
  /\ earlyExit = FALSE
  /\ windows = 0
  /\ readyPending = FALSE
  /\ exitRequested = FALSE
  /\ exitCode = -1
  /\ spawns = 0
  /\ kills = 0
  /\ waits = 0
  /\ sdCalls = 0
  /\ overwrote = FALSE

\* The launcher process at the start of run().
Init ==
  /\ argv \in RunArgvs
  /\ cli = CliArgsDefault
  /\ vres = [done |-> FALSE, err |-> None]
  /\ cpc = "run"
  /\ pc = [t \in Threads |-> IF t = "main" THEN "parse_cli" ELSE "idle"]
  /\ resources \in RunResources
  /\ link = "absent"
  /\ SupervisorInit

(***************************************************************************)
(* The backend process and the machine it runs on.                         *)
(***************************************************************************)
InWait(t) == pc[t] \in {"wait_cond", "wait_check", "wait_probe", "wait_sleep"}

\* The backend finishes initialising and accepts connections on its port.
BackendListens ==
  /\ Running
  /\ child = "running"
  /\ ~listening
  /\ ~foreign
  /\ listening' = TRUE
  /\ UNCHANGED <<child, cliVars, envVars, threadVars, handleVars, waitVars, guiVars,
                 countVars, exitCode>>

\* The backend process exits on its own (crash, bind failure, ...).
BackendExits ==
  /\ Running
  /\ child = "running"
  /\ child' = "exited"
  /\ listening' = FALSE
  /\ earlyExit' = (earlyExit \/ \E t \in Threads : InWait(t))
  /\ UNCHANGED <<elapsed, lastError, waitResult, cliVars, envVars, threadVars, handleVars,
                 guiVars, countVars, exitCode>>

\* TcpStream::connect_timeout to 127.0.0.1:backend_port succeeds.
PortAccepts == listening \/ foreign

(***************************************************************************)
(* shutdown_backend, step by step, run by thread t.                        *)
(***************************************************************************)
\* Where control goes when the shutdown_backend call made at `site` returns.
Cont(site) ==
  CASE site = "wait_fail" -> "fail"
    [] site = "setup_fail" -> "exit1"
    [] site = "menu_quit" -> "app_exit"
    [] site = "exit_requested" -> "exit0"
    [] OTHER -> "idle"


\* Mutant of SdTake: the handle is borrowed (as_mut) instead of taken, so it
\* is never cleared.
SdPeek(t) ==
  /\ Running
  /\ pc[t] = "sd_lock"
  /\ lockHolder = "free"
  /\ IF backend = "Some"
     THEN /\ lockHolder' = t
          /\ taken' = [taken EXCEPT ![t] = TRUE]
          /\ Goto(t, "sd_kill")
          /\ UNCHANGED <<caller, sdCalls>>
     ELSE /\ UNCHANGED <<lockHolder, taken>>
          /\ Goto(t, Cont(caller[t]))
          /\ caller' = [caller EXCEPT ![t] = "none"]
          /\ sdCalls' = sdCalls + 1
  /\ UNCHANGED <<backend, calls, spawns, kills, waits, overwrote, cliVars, envVars,
                 procVars, waitVars, guiVars, exitCode>>

\* Mutant of SdTake: the handle is read and taken without holding the lock
\* over kill and wait, and cleared only by a later step that never comes.
SdTakeNoLock(t) ==
  /\ Running
  /\ pc[t] = "sd_lock"
  /\ IF backend = "Some"
     THEN /\ taken' = [taken EXCEPT ![t] = TRUE]
          /\ Goto(t, "sd_kill")
          /\ UNCHANGED <<caller, sdCalls>>
     ELSE /\ UNCHANGED taken
          /\ Goto(t, Cont(caller[t]))
          /\ caller' = [caller EXCEPT ![t] = "none"]
          /\ sdCalls' = sdCalls + 1
  /\ UNCHANGED <<backend, lockHolder, calls, spawns, kills, waits, overwrote, cliVars,
                 envVars, procVars, waitVars, guiVars, exitCode>>

\* Mutant of SdTake: the guard is dropped as soon as the child is taken out
\* (`let child = state.backend.lock().unwrap().take();` as a statement of
\* its own), so kill and wait run without the lock.
SdTakeReleases(t) ==
  /\ Running
  /\ pc[t] = "sd_lock"
  /\ lockHolder = "free"
  /\ IF backend = "Some"
     THEN /\ backend' = "None"
          /\ taken' = [taken EXCEPT ![t] = TRUE]
          /\ Goto(t, "sd_kill")
          /\ UNCHANGED <<caller, sdCalls>>
     ELSE /\ UNCHANGED <<backend, taken>>
          /\ Goto(t, Cont(caller[t]))
          /\ caller' = [caller EXCEPT ![t] = "none"]
          /\ sdCalls' = sdCalls + 1
  /\ UNCHANGED <<lockHolder, calls, spawns, kills, waits, overwrote, cliVars, envVars,
                 procVars, waitVars, guiVars, exitCode>>

\* state.backend.lock().unwrap().take(): with a handle present the child is
\* moved out and the guard stays alive for the body of the `if let`; with no
\* handle the guard is dropped and the call returns.
SdTake(t) ==
  /\ Running
  /\ pc[t] = "sd_lock"
  /\ lockHolder = "free"
  /\ IF backend = "Some"
     THEN /\ backend' = "None"
          /\ lockHolder' = t
          /\ taken' = [taken EXCEPT ![t] = TRUE]
          /\ Goto(t, "sd_kill")
          /\ UNCHANGED <<caller, sdCalls>>
     ELSE /\ UNCHANGED <<backend, lockHolder, taken>>
          /\ Goto(t, Cont(caller[t]))
          /\ caller' = [caller EXCEPT ![t] = "none"]
          /\ sdCalls' = sdCalls + 1
  /\ UNCHANGED <<calls, spawns, kills, waits, overwrote, cliVars, envVars, procVars,
                 waitVars, guiVars, exitCode>>

\* let _ = child.kill();
SdKill(t) ==
  /\ Running
  /\ pc[t] = "sd_kill"
  /\ taken[t]
  /\ kills' = kills + 1
  /\ child' = IF child = "running" THEN "exited" ELSE child
  /\ listening' = FALSE
  /\ Goto(t, "sd_wait")
  /\ UNCHANGED <<caller, taken, calls, spawns, waits, sdCalls, overwrote, cliVars, envVars,
                 handleVars, waitVars, guiVars, exitCode>>

\* let _ = child.wait(); then the end of the `if let` drops the child and the
\* guard.
SdWait(t) ==
  /\ Running
  /\ pc[t] = "sd_wait"
  /\ taken[t]
  /\ child \in {"exited", "reaped"}
  /\ child' = "reaped"
  /\ waits' = waits + 1
  /\ sdCalls' = sdCalls + 1
  /\ lockHolder' = "free"
  /\ taken' = [taken EXCEPT ![t] = FALSE]
  /\ Goto(t, Cont(caller[t]))
  /\ caller' = [caller EXCEPT ![t] = "none"]
  /\ UNCHANGED <<calls, backend, listening, spawns, kills, overwrote, cliVars, envVars,
                 waitVars, guiVars, exitCode>>

\* Thread t calls shutdown_backend from call site `site`.
CallShutdown(t, site) ==
  /\ Goto(t, "sd_lock")
  /\ caller' = [caller EXCEPT ![t] = site]

(***************************************************************************)
(* spawn_backend.                                                          *)
(***************************************************************************)
\* Mutant of resolve_etc_path: whatever is at the symlink location is removed
\* and replaced, symlink or not.
resolve_etc_path_replace(plat, res, lnk) ==
  IF ~res.etc
  THEN [err |-> Some("backend/etc directory not found"), path |-> "none", link |-> lnk,
        ops |-> <<>>]
  ELSE IF plat = "windows" /\ ~res.wsl_paths
  THEN [err |-> Some("Failed to convert etc path to WSL format"), path |-> "none",
        link |-> lnk, ops |-> <<>>]
  ELSE IF ~res.etc_space
  THEN [err |-> None, path |-> "resolved", link |-> lnk, ops |-> <<>>]
  ELSE IF lnk = "current"
  THEN [err |-> None, path |-> "link", link |-> lnk, ops |-> <<>>]
  ELSE LET removed == IF lnk # "absent" /\ res.link_writable THEN "absent" ELSE lnk
           ops == (IF lnk # "absent" THEN <<"remove">> ELSE <<>>) \o <<"symlink">>
       IN IF removed = "absent" /\ res.link_writable
          THEN [err |-> None, path |-> "link", link |-> "current", ops |-> ops]
          ELSE IF plat = "windows" /\ removed = "stale_dir"
          THEN [err |-> None, path |-> "link", link |-> "stale", ops |-> ops]
          ELSE [err |-> Some("failed to create symlink for etc path with spaces"),
                path |-> "none", link |-> removed, ops |-> ops]

\* Mutant of resolve_etc_path: a symlink that already has the right target
\* is removed and created again like any other symlink.
resolve_etc_path_recreate(plat, res, lnk) ==
  IF ~res.etc
  THEN [err |-> Some("backend/etc directory not found"), path |-> "none", link |-> lnk,
        ops |-> <<>>]
  ELSE IF plat = "windows" /\ ~res.wsl_paths
  THEN [err |-> Some("Failed to convert etc path to WSL format"), path |-> "none",
        link |-> lnk, ops |-> <<>>]
  ELSE IF ~res.etc_space
  THEN [err |-> None, path |-> "resolved", link |-> lnk, ops |-> <<>>]
  ELSE IF lnk = "occupied"
  THEN [err |-> Some("symlink path already exists"), path |-> "none", link |-> lnk,
        ops |-> <<>>]
  ELSE LET removed == IF lnk # "absent" /\ res.link_writable THEN "absent" ELSE lnk
           ops == (IF lnk # "absent" THEN <<"remove">> ELSE <<>>) \o <<"symlink">>
       IN IF removed = "absent" /\ res.link_writable
          THEN [err |-> None, path |-> "link", link |-> "current", ops |-> ops]
          ELSE IF plat = "windows" /\ removed = "stale_dir"
          THEN [err |-> None, path |-> "link", link |-> "stale", ops |-> ops]
          ELSE [err |-> Some("failed to create symlink for etc path with spaces"),
                path |-> "none", link |-> removed, ops |-> ops]

\* resolve_etc_path on platform plat, with the resources res and lnk at the
\* symlink location: [err, path, link, ops], where err is None for Ok, path
\* is the returned path ("resolved" or "link"), link is what is at the
\* symlink location afterwards and ops are the removals and creations
\* attempted there.  A symlink that is not the right one is removed (the
\* result of the removal is ignored) and the link is created: symlink(2) on
\* unix, which fails when the name still exists, and `ln -s <etc> <link>`
\* through wsl.exe on Windows, which, when the name is still a symlink to a
\* directory, creates the new link inside that directory and succeeds.
resolve_etc_path(plat, res, lnk) ==
  IF ~res.etc
  THEN [err |-> Some("backend/etc directory not found"), path |-> "none", link |-> lnk,
        ops |-> <<>>]
  ELSE IF plat = "windows" /\ ~res.wsl_paths
  THEN [err |-> Some("Failed to convert etc path to WSL format"), path |-> "none",
        link |-> lnk, ops |-> <<>>]
  ELSE IF ~res.etc_space
  THEN [err |-> None, path |-> "resolved", link |-> lnk, ops |-> <<>>]
  ELSE IF lnk = "current"
  THEN [err |-> None, path |-> "link", link |-> lnk, ops |-> <<>>]
  ELSE IF lnk = "occupied"
  THEN [err |-> Some("symlink path already exists"), path |-> "none", link |-> lnk,
        ops |-> <<>>]
  ELSE LET removed == IF lnk \in {"stale", "stale_dir"} /\ res.link_writable
                      THEN "absent" ELSE lnk
           ops == (IF lnk # "absent" THEN <<"remove">> ELSE <<>>) \o <<"symlink">>
       IN IF removed = "absent" /\ res.link_writable
          THEN [err |-> None, path |-> "link", link |-> "current", ops |-> ops]
          ELSE IF plat = "windows" /\ removed = "stale_dir"
          THEN [err |-> None, path |-> "link", link |-> "stale", ops |-> ops]
          ELSE [err |-> Some("failed to create symlink for etc path with spaces"),
                path |-> "none", link |-> removed, ops |-> ops]

\* "../../../../../", the prefix of the CASAPATH value.
S_CasaPrefix == <<".",".","/",".",".","/",".",".","/",".",".","/",".",".","/">>
\* " linux", its suffix.
S_LinuxSuffix == <<" ","l","i","n","u","x">>
S_Linux == <<"l","i","n","u","x">>
\* SYMLINK_BASE/SYMLINK_NAME
S_LinkPath == <<"/","t","m","p","/","c","a","r","t","a","-","e","t","c">>
\* The canonical etc path of an installation without and with a space in it.
S_EtcPlain == <<"/","o","p","t","/","c","a","r","t","a","/","b","a","c","k","e","n","d","/","e","t","c">>
S_EtcSpaced == <<"/","o","p","t","/","m","y"," ","c","a","r","t","a","/","b","a","c","k","e","n","d","/","e","t","c">>

\* The text of the path resolve_etc_path returned.
EtcPathText(res, path) ==
  IF path = "link" THEN S_LinkPath
  ELSE IF res.etc_space THEN S_EtcSpaced ELSE S_EtcPlain

\* Mutant of resolve_casa_path: the value is built from the canonical etc
\* path, whatever resolve_etc_path returned.
resolve_casa_path_canonical(plat, res, lnk) ==
  LET r == resolve_etc_path(plat, res, lnk)
  IN [err |-> r.err, link |-> r.link, ops |-> r.ops, path |-> r.path,
      value |-> IF r.err # None THEN <<>>
                ELSE S_CasaPrefix \o EtcPathText(res, "resolved") \o S_LinuxSuffix]

\* resolve_casa_path: format!("../../../../../{} linux", resolve_etc_path(..)?)
resolve_casa_path(plat, res, lnk) ==
  LET r == resolve_etc_path(plat, res, lnk)
  IN [err |-> r.err, link |-> r.link, ops |-> r.ops, path |-> r.path,
      value |-> IF r.err # None THEN <<>>
                ELSE S_CasaPrefix \o EtcPathText(res, r.path) \o S_LinuxSuffix]

\* Mutant of SpawnResolve: the frontend directory is looked up before the
\* backend binary.
SpawnResolveFrontendFirst(plat, res, lnk) ==
  IF ~res.resource_dir THEN [err |-> Some("resource directory not found"), link |-> lnk]
  ELSE IF ~res.frontend THEN [err |-> Some("frontend directory not found"), link |-> lnk]
  ELSE IF ~res.backend
  THEN [err |-> Some("backend/bin/carta_backend binary not found"), link |-> lnk]
  ELSE IF plat = "windows" /\ ~res.wsl_paths
  THEN [err |-> Some("Failed to convert path to WSL format"), link |-> lnk]
  ELSE [err |-> resolve_etc_path(plat, res, lnk).err, link |-> resolve_etc_path(plat, res, lnk).link]

\* spawn_backend up to the point where the command is complete: the
\* resource directory, the backend and frontend paths, on Windows their
\* translation and that of the base directory, then the CASAPATH value from
\* resolve_casa_path.  [err, link] as above.
SpawnResolve(plat, res, lnk) ==
  IF ~res.resource_dir THEN [err |-> Some("resource directory not found"), link |-> lnk]
  ELSE IF ~res.backend
  THEN [err |-> Some("backend/bin/carta_backend binary not found"), link |-> lnk]
  ELSE IF ~res.frontend THEN [err |-> Some("frontend directory not found"), link |-> lnk]
  ELSE IF plat = "windows" /\ ~res.wsl_paths
  THEN [err |-> Some("Failed to convert path to WSL format"), link |-> lnk]
  ELSE [err |-> resolve_etc_path(plat, res, lnk).err, link |-> resolve_etc_path(plat, res, lnk).link]

\* The text of the resource directory: with or without a space and, on
\* Windows, on a drive (C:\...) or, where paths do not convert, on a share.
S_ResourceDirUnix == <<"/","o","p","t","/","c","a","r","t","a">>
S_ResourceDirUnixSpaced == <<"/","o","p","t","/","m","y"," ","c","a","r","t","a">>
S_ResourceDirWin == <<"C",":","\\","c","a","r","t","a">>
S_ResourceDirWinSpaced == <<"C",":","\\","m","y"," ","c","a","r","t","a">>
S_ResourceDirShare == <<"\\","\\","s","r","v","\\","c","a","r","t","a">>
S_Backend == <<"b","a","c","k","e","n","d">>
S_Bin == <<"b","i","n">>
S_BackendFilename == <<"c","a","r","t","a","_","b","a","c","k","e","n","d">>
S_Frontend == <<"f","r","o","n","t","e","n","d">>
S_Libs == <<"l","i","b","s">>
S_ExportLibs == <<"e","x","p","o","r","t"," ","L","D","_","L","I","B","R","A","R","Y","_","P","A","T","H","=">>
S_ExportLibsTail == <<":","$","L","D","_","L","I","B","R","A","R","Y","_","P","A","T","H",";"," ">>
S_ExportToken == <<"e","x","p","o","r","t"," ","C","A","R","T","A","_","A","U","T","H","_","T","O","K","E","N","=">>
S_ExportCasa == <<";"," ","e","x","p","o","r","t"," ","C","A","S","A","P","A","T","H","=">>
S_Exec == <<";"," ","e","x","e","c"," ">>
S_PortArg == <<" ","-","-","p","o","r","t","=">>
S_FrontendArg == <<" ","-","-","f","r","o","n","t","e","n","d","_","f","o","l","d","e","r","=">>
S_NoBrowserArg == <<" ","-","-","n","o","_","b","r","o","w","s","e","r"," ">>
S_QuotedQuote == <<"'","\"","'","\"","'">>
\* A stand-in for the uuid in AppState.backend_token.
S_Token == <<"t","o","k">>

ResourceDirText(plat, res) ==
  IF plat = "windows"
  THEN IF ~res.wsl_paths THEN S_ResourceDirShare
       ELSE IF res.etc_space THEN S_ResourceDirWinSpaced ELSE S_ResourceDirWin
  ELSE IF res.etc_space THEN S_ResourceDirUnixSpaced ELSE S_ResourceDirUnix

\* resolve_backend_path and resolve_frontend_path, as texts.
BackendPathText(plat, res) ==
  PathJoin(plat, PathJoin(plat, PathJoin(plat, ResourceDirText(plat, res), S_Backend), S_Bin),
           S_BackendFilename)

FrontendPathText(plat, res) == PathJoin(plat, ResourceDirText(plat, res), S_Frontend)

\* bash_escape: the value in single quotes, each single quote of it written
\* as '"'"'.
RECURSIVE EscapeChars(_, _)
EscapeChars(value, i) ==
  IF i > Len(value) THEN <<>>
  ELSE (IF value[i] = "'" THEN S_QuotedQuote ELSE <<value[i]>>)
       \o EscapeChars(value, i + 1)

bash_escape(value) ==
  IF value = <<>> THEN <<"'", "'">>
  ELSE <<"'">> \o EscapeChars(value, 1) \o <<"'">>

\* normalize_backend_args_for_wsl: the passthrough list with the values of
\* --top_level_folder and --frontend_folder in WSL form; [err, args].
RECURSIVE NormalizeLoop(_, _, _, _)
NormalizeLoop(args, i, cwd, normalized) ==
  IF i > Len(args) THEN [err |-> None, args |-> normalized]
  ELSE IF args[i] = S_TopLevelFolder \/ args[i] = S_FrontendFolder
  THEN IF i + 1 > Len(args)
       THEN NormalizeLoop(args, i + 1, cwd, Append(normalized, args[i]))
       ELSE IF normalize_wsl_arg_path(args[i + 1], cwd) = None
       THEN [err |-> Some("Failed to convert path to WSL format"), args |-> <<>>]
       ELSE NormalizeLoop(args, i + 2, cwd,
                          normalized \o <<args[i], normalize_wsl_arg_path(args[i + 1], cwd)[1]>>)
  ELSE IF StartsWith(args[i], S_TopLevelFolderEq) \/ StartsWith(args[i], S_FrontendFolderEq)
  THEN LET prefix == IF StartsWith(args[i], S_TopLevelFolderEq)
                     THEN S_TopLevelFolderEq ELSE S_FrontendFolderEq
           converted == normalize_wsl_arg_path(SubSeq(args[i], Len(prefix) + 1, Len(args[i])), cwd)
       IN IF converted = None
          THEN [err |-> Some("Failed to convert path to WSL format"), args |-> <<>>]
          ELSE NormalizeLoop(args, i + 1, cwd, Append(normalized, prefix \o converted[1]))
  ELSE NormalizeLoop(args, i + 1, cwd, Append(normalized, args[i]))

normalize_backend_args_for_wsl(extra_args, cwd) == NormalizeLoop(extra_args, 1, cwd, <<>>)

\* .collect::<Vec<_>>().join(" ")
RECURSIVE JoinSpace(_)
JoinSpace(words) ==
  IF words = <<>> THEN <<>>
  ELSE IF Len(words) = 1 THEN words[1]
  ELSE words[1] \o <<" ">> \o JoinSpace(SubSeq(words, 2, Len(words)))

\* Mutant of BackendArgs: the passthrough arguments come before the
\* launcher's own.
BackendArgsExtraFirst(base, port, frontend, extra_args) ==
  extra_args \o <<base, S_PortEq \o ToDecimal(port), S_FrontendFolderEq \o frontend, S_NoBrowser>>

\* The arguments the native Command is given, in order.
BackendArgs(base, port, frontend, extra_args) ==
  <<base, S_PortEq \o ToDecimal(port), S_FrontendFolderEq \o frontend, S_NoBrowser>>
  \o extra_args

\* resolve_libs_path: backend/libs under the resource directory when it
\* exists.
resolve_libs_path(plat, res) ==
  IF res.libs THEN Some(PathJoin(plat, PathJoin(plat, ResourceDirText(plat, res), S_Backend), S_Libs))
  ELSE None

\* libs_path.map(|p| format!("export LD_LIBRARY_PATH={}:$LD_LIBRARY_PATH; ",
\* bash_escape(&p))).unwrap_or_default()
LdExport(libs_path) ==
  IF libs_path = None THEN <<>>
  ELSE S_ExportLibs \o bash_escape(libs_path[1]) \o S_ExportLibsTail

\* The bash command line of the Windows build.
ShellLine(ld_export, backend_path, base, port, frontend, casa_path, normalized) ==
  ld_export \o S_ExportToken \o bash_escape(S_Token) \o S_ExportCasa \o bash_escape(casa_path)
  \o S_Exec \o bash_escape(backend_path) \o <<" ">> \o bash_escape(base)
  \o S_PortArg \o ToDecimal(port) \o S_FrontendArg \o bash_escape(frontend)
  \o S_NoBrowserArg
  \o JoinSpace([i \in 1..Len(normalized) |-> bash_escape(normalized[i])])

\* Mutant of WslCommand: the native-library directory is required like the
\* other paths.
WslCommandLibsRequired(backend_path, frontend, base, casa_path, normalized, libs_path, port) ==
  IF \/ backend_path = None \/ frontend = None \/ base = None \/ normalized.err # None
     \/ libs_path = None
  THEN [err |-> Some("Failed to convert path to WSL format"), program |-> <<>>,
        args |-> <<>>, line |-> <<>>]
  ELSE [err |-> None, program |-> <<>>, args |-> <<>>,
        line |-> ShellLine(LdExport(libs_path), backend_path[1], base[1], port, frontend[1],
                           casa_path, normalized.args)]

\* What spawn_backend builds once every path has resolved: [err, program,
\* args, line].  On unix the program and its argument list; on Windows the
\* line given to bash through wsl.exe, which fails to build when the base
\* directory or a folder argument does not convert.
WslCommand(backend_path, frontend, base, casa_path, normalized, libs_path, port) ==
  IF backend_path = None \/ frontend = None \/ base = None \/ normalized.err # None
  THEN [err |-> Some("Failed to convert path to WSL format"), program |-> <<>>,
        args |-> <<>>, line |-> <<>>]
  ELSE [err |-> None, program |-> <<>>, args |-> <<>>,
        line |-> ShellLine(LdExport(libs_path), backend_path[1], base[1], port, frontend[1],
                           casa_path, normalized.args)]

BuildCommand(plat, res, lnk, base, port, extra_args, cwd) ==
  IF plat = "windows"
  THEN TheOne({ WslCommand(backend_path, frontend, wsl_base, casa_path, normalized,
                           libs_path, port) :
                  backend_path \in {to_wsl_path_str(BackendPathText(plat, res))},
                  frontend \in {to_wsl_path_str(FrontendPathText(plat, res))},
                  wsl_base \in {to_wsl_path_str(base)},
                  casa_path \in {resolve_casa_path(plat, res, lnk).value},
                  normalized \in {normalize_backend_args_for_wsl(extra_args, cwd)},
                  libs_path \in {IF resolve_libs_path(plat, res) = None THEN None
                                 ELSE win_to_wsl_path(resolve_libs_path(plat, res)[1])} })
  ELSE [err |-> None, program |-> BackendPathText(plat, res),
        args |-> BackendArgs(base, port, FrontendPathText(plat, res), extra_args),
        line |-> <<>>]

\* What can still happen once the command is built: the child is created or
\* cmd.spawn() fails.
SpawnOutcomes(plat) == {"ok", "io_error"}

\* Everything up to and including cmd.spawn().  Any step failing returns Err
\* before a child exists.  On Windows the base directory is converted before
\* the etc path is resolved, the passthrough list after it.
SpawnCommand(t) ==
  /\ Running
  /\ pc[t] = "spawn"
  /\ LET r == SpawnResolve(platform, resources, link)
         built == BuildCommand(platform, resources, link, base_dir, backend_port,
                               cli.extra_args, current_dir)
     IN IF /\ platform = "windows"
           /\ resources.resource_dir /\ resources.backend /\ resources.frontend
           /\ resources.wsl_paths
           /\ to_wsl_path_str(base_dir) = None
        THEN /\ spawnError' = Some("Failed to convert path to WSL format")
             /\ UNCHANGED <<child, spawns, command, link>>
             /\ Goto(t, "fail")
        ELSE IF r.err # None \/ built.err # None
        THEN /\ spawnError' = (IF r.err # None THEN r.err ELSE built.err)
             /\ link' = r.link
             /\ UNCHANGED <<child, spawns, command>>
             /\ Goto(t, "fail")
        ELSE /\ link' = r.link
             /\ \E outcome \in SpawnOutcomes(platform) :
                  IF outcome = "ok"
                  THEN /\ child' = "running"
                       /\ spawns' = spawns + 1
                       /\ command' = Some([program |-> built.program, args |-> built.args,
                                           line |-> built.line])
                       /\ Goto(t, "spawn_store")
                       /\ UNCHANGED spawnError
                  ELSE /\ spawnError' = Some("io error")
                       /\ UNCHANGED <<child, spawns, command>>
                       /\ Goto(t, "fail")
  /\ UNCHANGED <<listening, caller, taken, calls, kills, waits, sdCalls, overwrote, cliVars,
                 platform, foreign, backend_port, resources, inst, linkTarget, within, launcherOut, childWrote, drain, pipeOpen, pipeLines, help_result, inputKind, current_dir, top_level_path, base_dir,
                 etcResults, handleVars, waitVars, guiVars, exitCode>>

\* *state.backend.lock().unwrap() = Some(child); Ok(())
SpawnStore(t) ==
  /\ Running
  /\ pc[t] = "spawn_store"
  /\ lockHolder = "free"
  /\ overwrote' = (overwrote \/ backend = "Some")
  /\ backend' = "Some"
  /\ Goto(t, "wait_start")
  /\ UNCHANGED <<lockHolder, caller, taken, calls, spawns, kills, waits, sdCalls, cliVars,
                 envVars, procVars, waitVars, guiVars, exitCode>>

(***************************************************************************)
(* wait_for_backend(state, timeout).                                       *)
(***************************************************************************)
\* let start = Instant::now(); let mut last_error = None;
WaitStart(t) ==
  /\ Running
  /\ pc[t] = "wait_start"
  /\ elapsed' = 0
  /\ lastError' = None
  /\ Goto(t, "wait_cond")
  /\ UNCHANGED <<waitResult, earlyExit, caller, taken, calls, cliVars, envVars, handleVars,
                 procVars, guiVars, countVars, exitCode>>

\* format!("Backend not ready on port {} after {}s{}", port, timeout.as_secs(), detail)
\* `measured` records start.elapsed() as the loop condition read it.
NotReadyError ==
  [kind |-> "NotReady", secs |-> Timeout \div 1000, detail |-> lastError,
   measured |-> elapsed]

\* The other two return values.
WaitReturn(kind) ==
  [kind |-> kind, secs |-> 0, detail |-> None, measured |-> 0]


\* Mutant of WaitCond: the loop condition is `<=`, one more iteration starts
\* when the elapsed time equals the timeout.
WaitCondInclusive(t) ==
  /\ Running
  /\ pc[t] = "wait_cond"
  /\ IF elapsed <= Timeout
     THEN /\ Goto(t, "wait_check")
          /\ UNCHANGED <<waitResult, elapsed, lastError>>
     ELSE /\ waitResult' = NotReadyError
          /\ elapsed' = 0
          /\ lastError' = None
          /\ Goto(t, "wait_ret")
  /\ UNCHANGED <<earlyExit, caller, taken, calls, cliVars, envVars,
                 handleVars, procVars, guiVars, countVars, exitCode>>

\* while start.elapsed() < timeout { ... } and, past the loop, the error.
WaitCond(t) ==
  /\ Running
  /\ pc[t] = "wait_cond"
  /\ IF elapsed < Timeout
     THEN /\ Goto(t, "wait_check")
          /\ UNCHANGED <<waitResult, elapsed, lastError>>
     ELSE /\ waitResult' = NotReadyError
          /\ elapsed' = 0
          /\ lastError' = None
          /\ Goto(t, "wait_ret")
  /\ UNCHANGED <<earlyExit, caller, taken, calls, cliVars, envVars,
                 handleVars, procVars, guiVars, countVars, exitCode>>

\* Mutant of WaitCheck: an empty handle ends the poll as if the backend had
\* exited.
WaitCheckStopsOnEmpty(t) ==
  /\ Running
  /\ pc[t] = "wait_check"
  /\ lockHolder = "free"
  /\ IF backend = "None" \/ child \in {"exited", "reaped"}
     THEN /\ child' = IF backend = "Some" THEN "reaped" ELSE child
          /\ waitResult' = WaitReturn("Exited")
          /\ elapsed' = 0
          /\ lastError' = None
          /\ Goto(t, "wait_ret")
     ELSE /\ UNCHANGED <<child, waitResult, elapsed, lastError>>
          /\ Goto(t, "wait_probe")
  /\ UNCHANGED <<listening, earlyExit, caller, taken, calls, cliVars,
                 envVars, handleVars, guiVars, countVars, exitCode>>

\* if let Some(ref mut child) = *state.backend.lock().unwrap()
\*     && let Ok(Some(status)) = child.try_wait() { return Err(exited) }
\* try_wait reaps a child that has exited.
WaitCheck(t) ==
  /\ Running
  /\ pc[t] = "wait_check"
  /\ lockHolder = "free"
  /\ IF backend = "Some" /\ child \in {"exited", "reaped"}
     THEN /\ child' = "reaped"
          /\ waitResult' = WaitReturn("Exited")
          /\ elapsed' = 0
          /\ lastError' = None
          /\ Goto(t, "wait_ret")
     ELSE /\ UNCHANGED <<child, waitResult, elapsed, lastError>>
          /\ Goto(t, "wait_probe")
  /\ UNCHANGED <<listening, earlyExit, caller, taken, calls, cliVars,
                 envVars, handleVars, guiVars, countVars, exitCode>>

\* match TcpStream::connect_timeout(&addr, CONNECT_TIMEOUT_MS)
WaitProbe(t) ==
  /\ Running
  /\ pc[t] = "wait_probe"
  /\ IF PortAccepts
     THEN /\ waitResult' = WaitReturn("Ok")
          /\ elapsed' = 0
          /\ lastError' = None
          /\ Goto(t, "wait_ret")
     ELSE /\ \E d \in ProbeDurations :
               /\ elapsed' = elapsed + d
               /\ lastError' = Some(IF d = 0 THEN "refused" ELSE "timed out")
          /\ Goto(t, "wait_sleep")
          /\ UNCHANGED waitResult
  /\ UNCHANGED <<earlyExit, caller, taken, calls, cliVars, envVars, handleVars, procVars,
                 guiVars, countVars, exitCode>>

\* std::thread::sleep(Duration::from_millis(CONNECT_RETRY_MS))
WaitSleep(t) ==
  /\ Running
  /\ pc[t] = "wait_sleep"
  /\ \E d \in SleepDurations : elapsed' = elapsed + d
  /\ Goto(t, "wait_cond")
  /\ UNCHANGED <<lastError, waitResult, earlyExit, caller, taken, calls, cliVars, envVars,
                 handleVars, procVars, guiVars, countVars, exitCode>>

(***************************************************************************)
(* run(): the launcher's main flow, on thread "main".                      *)
(***************************************************************************)
M == "main"

\* let cli = parse_cli_args(); a port error ends the launcher with code 1.
RunParseCli ==
  /\ Running
  /\ pc[M] = "parse_cli"
  /\ cli' = parse_cli_args_from(argv)
  /\ IF parse_cli_args_from(argv).port_error # None
     THEN Exit(M, 1)
     ELSE Goto(M, "resolve_base") /\ UNCHANGED exitCode
  /\ UNCHANGED <<argv, vres, cpc, envVars, caller, taken, calls, handleVars, procVars,
                 waitVars, guiVars, countVars>>

\* resolve_base_directory, then resolve_input_file_path: both read the file
\* system.  The working directory may be unreadable, the home directory
\* unknown, the input path missing or neither file nor directory; any of
\* these ends the launcher with code 1.
RunResolveBase ==
  /\ Running
  /\ pc[M] = "resolve_base"
  /\ \E ok \in BOOLEAN, home \in {None, Some(HomeText(platform))} :
       LET r == resolve_base_directory(platform, cli.input_path, current_dir, home, inputKind)
       IN IF ok /\ r.err = None
          THEN /\ base_dir' = r.path
               /\ Goto(M, "pick_port")
               /\ UNCHANGED exitCode
          ELSE /\ Exit(M, 1)
               /\ UNCHANGED base_dir
  /\ UNCHANGED <<cliVars, platform, foreign, backend_port, resources, link, spawnError, inst, linkTarget, within,
                 launcherOut, childWrote, drain, pipeOpen, pipeLines, help_result, inputKind,
                 current_dir,
                 command, top_level_path, etcResults, caller, taken, calls, handleVars,
                 procVars, waitVars, guiVars, countVars>>

\* cli.port, or else portpicker::pick_unused_port(), which may find none.
RunPickPort ==
  /\ Running
  /\ pc[M] = "pick_port"
  /\ IF cli.port # None
     THEN /\ backend_port' = cli.port[1]
          /\ Goto(M, "top_level")
          /\ UNCHANGED exitCode
     ELSE \/ \E p \in PickablePorts :
               /\ backend_port' = p
               /\ Goto(M, "top_level")
               /\ UNCHANGED exitCode
          \/ /\ Exit(M, 1)
             /\ UNCHANGED backend_port
  /\ UNCHANGED <<cliVars, platform, foreign, resources, link, spawnError, inst, linkTarget, within, launcherOut, childWrote,
                 drain, pipeOpen, pipeLines, help_result, inputKind, current_dir, command,
                 top_level_path, base_dir, etcResults, caller, taken,
                 calls, handleVars, procVars, waitVars, guiVars, countVars>>

\* resolve_top_level_path (fails when the working directory cannot be read),
\* ensure_base_dir_within_top_level, AppState, and the tauri Builder's
\* build(), which may fail.
RunBuild ==
  /\ Running
  /\ pc[M] = "top_level"
  /\ \E ok \in BOOLEAN :
       IF ok
       THEN LET folder == IF resolve_top_level_folder(cli.extra_args) = None THEN S_Slash
                          ELSE resolve_top_level_folder(cli.extra_args)[1]
                top == resolve_top_level_path(platform, folder, current_dir)
            IN /\ top_level_path' = top
               /\ base_dir' = ensure_base_dir_within_top_level(platform, base_dir, top)
               /\ Goto(M, "setup")
               /\ UNCHANGED exitCode
       ELSE /\ Exit(M, 1)
            /\ UNCHANGED <<top_level_path, base_dir>>
  /\ UNCHANGED <<cliVars, platform, foreign, backend_port, resources, link, spawnError, inst, linkTarget, within,
                 launcherOut, childWrote, drain, pipeOpen, pipeLines, help_result, inputKind,
                 current_dir,
                 command, etcResults, caller, taken, calls, handleVars, procVars, waitVars,
                 guiVars, countVars>>

\* let flag = if version { "--version" } else { "--help" };
HelpFlag(version) == IF version THEN "--version" ELSE "--help"

\* What the backend writes when run with the flag.
BackendStdout(flag) == "carta_backend " \o flag \o " output"

BackendStderr(flag) == "carta_backend " \o flag \o " diagnostics"

\* println!(); println!("Additional Tauri flag:"); println!("      --inspect ...");
UsageLines ==
  <<"", "Additional Tauri flag:",
    "      --inspect      Open the DevTools in the Tauri window.">>

\* Mutant of run_backend_help: the usage lines are printed after the version
\* output too.
run_backend_help_usage_always(plat, res, version) ==
  IF ~res.resource_dir \/ ~res.backend \/ (plat = "windows" /\ ~res.wsl_paths)
  THEN {[result |-> "unresolved", stdout |-> <<>>, stderr |-> <<>>]}
  ELSE {[result |-> "unstarted", stdout |-> <<>>, stderr |-> <<>>],
        [result |-> "failed", stdout |-> <<BackendStdout(HelpFlag(version))>>,
         stderr |-> <<BackendStderr(HelpFlag(version))>>],
        [result |-> "ok", stdout |-> <<BackendStdout(HelpFlag(version))>> \o UsageLines,
         stderr |-> <<>>]}

\* run_backend_help: [result, stdout, stderr].  The backend path is resolved
\* ("unresolved" when that fails and the backend is not run), then the
\* backend runs with --help or --version: it cannot be started
\* ("unstarted"), ends with a failure status ("failed") or succeeds ("ok").
\* Its output is printed before the status is looked at; the usage lines
\* follow on success `if !version`.
run_backend_help(plat, res, version) ==
  IF ~res.resource_dir \/ ~res.backend \/ (plat = "windows" /\ ~res.wsl_paths)
  THEN {[result |-> "unresolved", stdout |-> <<>>, stderr |-> <<>>]}
  ELSE {[result |-> "unstarted", stdout |-> <<>>, stderr |-> <<>>],
        [result |-> "failed", stdout |-> <<BackendStdout(HelpFlag(version))>>,
         stderr |-> <<BackendStderr(HelpFlag(version))>>],
        [result |-> "ok",
         stdout |-> <<BackendStdout(HelpFlag(version))>>
                      \o (IF ~version THEN UsageLines ELSE <<>>),
         stderr |-> <<>>]}

\* Mutant of RunSetup: help and version are not looked at.
RunSetupNoHelp ==
  /\ Running
  /\ pc[M] = "setup"
  /\ Goto(M, "validate")
  /\ UNCHANGED <<cliVars, envVars, caller, taken, calls, handleVars, procVars, waitVars,
                 guiVars, countVars, exitCode>>

\* setup: `if cli.help || cli.version { match run_backend_help(..) { Ok(())
\* => exit(0), Err(err) => exit(1) } }`.
RunSetup ==
  /\ Running
  /\ pc[M] = "setup"
  /\ IF cli.help \/ cli.version
     THEN \E outcome \in run_backend_help(platform, resources, cli.version) :
            /\ help_result' = outcome.result
            /\ launcherOut' =
                 [launcherOut EXCEPT
                    !["stdout"] = @ \o outcome.stdout,
                    !["stderr"] = @ \o outcome.stderr
                                    \o (IF outcome.result = "ok" THEN <<>> ELSE <<"error">>)]
            /\ Exit(M, IF outcome.result = "ok" THEN 0 ELSE 1)
     ELSE Goto(M, "validate") /\ UNCHANGED <<exitCode, help_result, launcherOut>>
  /\ UNCHANGED <<cliVars, platform, foreign, backend_port, resources, link, spawnError, inst, linkTarget, within,
                 childWrote, drain, pipeOpen, pipeLines,
                 inputKind, current_dir, command, top_level_path, base_dir, etcResults,
                 caller, taken, calls, handleVars, procVars, waitVars, guiVars, countVars>>

\* Mutant of RunValidate: the validation result is not propagated (no `?`).
RunValidateIgnored ==
  /\ Running
  /\ pc[M] = "validate"
  /\ vres' = [done |-> TRUE, err |-> validate_backend_args(cli.extra_args)]
  /\ Goto(M, "spawn")
  /\ UNCHANGED <<argv, cli, cpc, envVars, caller, taken, calls, handleVars, procVars,
                 waitVars, guiVars, countVars, exitCode>>

\* validate_backend_args(&extra_args)?;
RunValidate ==
  /\ Running
  /\ pc[M] = "validate"
  /\ vres' = [done |-> TRUE, err |-> validate_backend_args(cli.extra_args)]
  /\ IF validate_backend_args(cli.extra_args) = None
     THEN Goto(M, "spawn")
     ELSE Goto(M, "fail")
  /\ UNCHANGED <<argv, cli, cpc, envVars, caller, taken, calls, handleVars, procVars,
                 waitVars, guiVars, countVars, exitCode>>


\* Mutant of RunAfterWait: a failed wait spawns the backend again.
RunAfterWaitRetry ==
  /\ Running
  /\ pc[M] = "wait_ret"
  /\ IF waitResult.kind # "Ok"
     THEN Goto(M, "spawn") /\ UNCHANGED <<caller, readyPending>>
     ELSE /\ UNCHANGED caller
          /\ IF platform = "macos"
             THEN Goto(M, "event_loop") /\ readyPending' = TRUE
             ELSE Goto(M, "create_window") /\ UNCHANGED readyPending
  /\ UNCHANGED <<windows, exitRequested, cliVars, envVars, taken, calls, handleVars,
                 procVars, waitVars, countVars, exitCode>>

\* Mutant of RunAfterWait: the result of wait_for_backend is ignored and the
\* window is created anyway.
RunAfterWaitIgnoresError ==
  /\ Running
  /\ pc[M] = "wait_ret"
  /\ IF platform = "macos"
     THEN Goto(M, "event_loop") /\ readyPending' = TRUE
     ELSE Goto(M, "create_window") /\ UNCHANGED readyPending
  /\ UNCHANGED <<caller, windows, exitRequested, cliVars, envVars, taken, calls,
                 handleVars, procVars, waitVars, countVars, exitCode>>

\* if let Err(err) = wait_for_backend(..) { shutdown_backend(&state); return Err(err); }
\* and, on Ok, create_window on every platform but macOS.
RunAfterWait ==
  /\ Running
  /\ pc[M] = "wait_ret"
  /\ IF waitResult.kind # "Ok"
     THEN CallShutdown(M, "wait_fail") /\ UNCHANGED readyPending
     ELSE /\ UNCHANGED caller
          /\ IF platform = "macos"
             THEN Goto(M, "event_loop") /\ readyPending' = TRUE
             ELSE Goto(M, "create_window") /\ UNCHANGED readyPending
  /\ UNCHANGED <<windows, exitRequested, cliVars, envVars, taken, calls, handleVars,
                 procVars, waitVars, countVars, exitCode>>

\* create_window(..).map_err(..)?; Ok(())
RunCreateWindow ==
  /\ Running
  /\ pc[M] = "create_window"
  /\ \E ok \in BOOLEAN :
       IF ok
       THEN Goto(M, "event_loop") /\ windows' = windows + 1
       ELSE Goto(M, "fail") /\ UNCHANGED windows
  /\ UNCHANGED <<readyPending, exitRequested, cliVars, envVars, caller, taken, calls,
                 handleVars, procVars, waitVars, countVars, exitCode>>


\* Mutant of RunFail: the failure path exits without calling shutdown_backend.
RunFailNoShutdown ==
  /\ Running
  /\ pc[M] = "fail"
  /\ Goto(M, "exit1")
  /\ UNCHANGED <<caller, taken, calls, cliVars, envVars, handleVars, procVars, waitVars,
                 guiVars, countVars, exitCode>>

\* if let Err(err) = result { eprintln!(..); shutdown_backend(&state); exit(1) }
RunFail ==
  /\ Running
  /\ pc[M] = "fail"
  /\ CallShutdown(M, "setup_fail")
  /\ UNCHANGED <<taken, calls, cliVars, envVars, handleVars, procVars, waitVars, guiVars,
                 countVars, exitCode>>

\* Mutant of RunExit1: the failure path ends with code 0.
RunExit1Code0 ==
  /\ Running
  /\ pc[M] = "exit1"
  /\ Exit(M, 0)
  /\ UNCHANGED <<caller, taken, calls, cliVars, envVars, handleVars, procVars, waitVars,
                 guiVars, countVars>>

\* std::process::exit(1);
RunExit1 ==
  /\ Running
  /\ pc[M] = "exit1"
  /\ Exit(M, 1)
  /\ UNCHANGED <<caller, taken, calls, cliVars, envVars, handleVars, procVars, waitVars,
                 guiVars, countVars>>

(***************************************************************************)
(* The event loop: menu, window and run events, handled on thread "main".  *)
(***************************************************************************)
\* RunEvent::Ready (macOS): create the first window if there is none; a
\* failure is ignored.
EvReady ==
  /\ Running
  /\ pc[M] = "event_loop"
  /\ readyPending
  /\ readyPending' = FALSE
  /\ \E ok \in BOOLEAN :
       windows' = IF windows = 0 /\ ok THEN 1 ELSE windows
  /\ UNCHANGED <<exitRequested, cliVars, envVars, threadVars, handleVars, procVars,
                 waitVars, countVars, exitCode>>

\* MENU_NEW_WINDOW (and, on macOS, an opened file that needs a new window):
\* let _ = create_window(..);
EvNewWindow ==
  /\ Running
  /\ pc[M] = "event_loop"
  /\ windows < MaxWindows
  /\ \E ok \in BOOLEAN :
       windows' = IF ok THEN windows + 1 ELSE windows
  /\ UNCHANGED <<readyPending, exitRequested, cliVars, envVars, threadVars, handleVars,
                 procVars, waitVars, countVars, exitCode>>

\* WindowEvent::CloseRequested: closing the last window calls app.exit(0).
EvCloseRequested ==
  /\ Running
  /\ pc[M] = "event_loop"
  /\ windows >= 1
  /\ exitRequested' = (exitRequested \/ windows <= 1)
  /\ windows' = windows - 1
  /\ UNCHANGED <<readyPending, cliVars, envVars, threadVars, handleVars, procVars, waitVars,
                 countVars, exitCode>>

\* MENU_QUIT => { shutdown_backend(state); app.exit(0); }
EvMenuQuit ==
  /\ Running
  /\ pc[M] = "event_loop"
  /\ sdCalls < MaxQuits
  /\ CallShutdown(M, "menu_quit")
  /\ UNCHANGED <<taken, calls, cliVars, envVars, handleVars, procVars, waitVars, guiVars,
                 countVars, exitCode>>

\* app.exit(0): the event loop is asked to exit, RunEvent::ExitRequested
\* follows.  In the concurrent harness the thread goes back to idle.
AppExit(t) ==
  /\ Running
  /\ pc[t] = "app_exit"
  /\ exitRequested' = TRUE
  /\ Goto(t, IF t = M THEN "event_loop" ELSE "idle")
  /\ UNCHANGED <<windows, readyPending, caller, taken, calls, cliVars, envVars, handleVars,
                 procVars, waitVars, countVars, exitCode>>

\* RunEvent::ExitRequested => shutdown_backend(&state)
EvExitRequested ==
  /\ Running
  /\ pc[M] = "event_loop"
  /\ exitRequested
  /\ CallShutdown(M, "exit_requested")
  /\ UNCHANGED <<taken, calls, cliVars, envVars, handleVars, procVars, waitVars, guiVars,
                 countVars, exitCode>>

\* The event loop ends after the ExitRequested handler: exit code 0.
Exit0(t) ==
  /\ Running
  /\ pc[t] = "exit0"
  /\ Exit(t, 0)
  /\ UNCHANGED <<caller, taken, calls, cliVars, envVars, handleVars, procVars, waitVars,
                 guiVars, countVars>>

(***************************************************************************)
(* The launcher.                                                           *)
(***************************************************************************)
\* Steps of the launcher's own code: they run whenever they can.
ProgramStep ==
  \/ RunParseCli
  \/ RunResolveBase
  \/ RunPickPort
  \/ RunBuild
  \/ RunSetup
  \/ RunValidate
  \/ SpawnCommand(M)
  \/ SpawnStore(M)
  \/ WaitStart(M)
  \/ WaitCond(M)
  \/ WaitCheck(M)
  \/ WaitProbe(M)
  \/ WaitSleep(M)
  \/ RunAfterWait
  \/ RunCreateWindow
  \/ RunFail
  \/ RunExit1
  \/ SdTake(M)
  \/ SdKill(M)
  \/ SdWait(M)
  \/ AppExit(M)
  \/ EvReady
  \/ EvExitRequested
  \/ Exit0(M)

\* What the user and the backend process do: they may never happen.
EnvironmentStep ==
  \/ BackendListens
  \/ BackendExits
  \/ EvNewWindow
  \/ EvCloseRequested
  \/ EvMenuQuit

Next ==
  \/ ProgramStep
  \/ EnvironmentStep

Spec == Init /\ [][Next]_vars

\* The main thread keeps running: a step of the program that stays possible
\* is eventually taken.  Nothing is assumed of the user or of the backend.
FairSpec == Init /\ [][Next]_vars /\ WF_vars(ProgramStep)

(***************************************************************************)
(* The parser and the validator on their own: every argument list of up to *)
(* MaxArgs tokens is parsed, and validated as run() does (the parser's     *)
(* extra_args) or directly.                                                *)
(***************************************************************************)
CliInit ==
  /\ argv \in ArgLists
  /\ cli = CliArgsDefault
  /\ vres = [done |-> FALSE, err |-> None]
  /\ cpc = "args"
  /\ pc = [t \in Threads |-> "idle"]
  /\ resources = ResourcesPresent
  /\ link = "absent"
  /\ SupervisorInit
  /\ platform = "linux"
  /\ ~foreign

\* parse_cli_args_from(argv)
CliParse ==
  /\ cpc = "args"
  /\ cli' = parse_cli_args_from(argv)
  /\ cpc' = "parsed"
  /\ UNCHANGED <<argv, vres, envVars, threadVars, handleVars, procVars, waitVars, guiVars,
                 countVars, exitCode>>

\* validate_backend_args(&cli.extra_args), as run() calls it
CliValidateParsed ==
  /\ cpc = "parsed"
  /\ vres' = [done |-> TRUE, err |-> validate_backend_args(cli.extra_args)]
  /\ cpc' = "validated"
  /\ UNCHANGED <<argv, cli, envVars, threadVars, handleVars, procVars, waitVars, guiVars,
                 countVars, exitCode>>

\* validate_backend_args(argv), on an arbitrary argument list
CliValidateRaw ==
  /\ cpc = "args"
  /\ vres' = [done |-> TRUE, err |-> validate_backend_args(argv)]
  /\ cpc' = "validated_raw"
  /\ UNCHANGED <<argv, cli, envVars, threadVars, handleVars, procVars, waitVars, guiVars,
                 countVars, exitCode>>

CliNext ==
  \/ CliParse
  \/ CliValidateParsed
  \/ CliValidateRaw

SpecCli == CliInit /\ [][CliNext]_vars

(***************************************************************************)
(* shutdown_backend called from several threads at once on a spawned       *)
(* backend: AppState is shared, and its Mutex is what orders the callers.  *)
(* Thread "main" is on the startup failure path, "menu" handles Quit and   *)
(* "exit" handles RunEvent::ExitRequested.                                 *)
(***************************************************************************)
\* The state right after spawn_backend returned Ok.
ConcInit ==
  /\ argv = <<>>
  /\ cli = parse_cli_args_from(<<>>)
  /\ vres = [done |-> TRUE, err |-> None]
  /\ cpc = "run"
  /\ platform \in Platforms
  /\ current_dir = CwdText(platform)
  /\ foreign = FALSE
  /\ backend_port \in PickablePorts
  /\ resources = ResourcesPresent
  /\ link = "absent"
  /\ spawnError = None
  /\ inst = [l \in Launchers |-> [pc |-> "idle", result |-> None]]
  /\ linkTarget = "absent"
  /\ within = None
  /\ launcherOut = [s \in Streams |-> <<>>]
  /\ childWrote = [s \in Streams |-> <<>>]
  /\ drain = [s \in Streams |-> "none"]
  /\ pipeOpen = [s \in Streams |-> FALSE]
  /\ pipeLines = [s \in Streams |-> <<>>]
  /\ help_result = "none"
  /\ inputKind = "file"
  /\ command = None
  /\ top_level_path = <<>>
  /\ base_dir = <<>>
  /\ etcResults = <<>>
  /\ pc = [t \in Threads |-> "idle"]
  /\ caller = [t \in Threads |-> "none"]
  /\ taken = [t \in Threads |-> FALSE]
  /\ calls = [t \in Threads |-> 0]
  /\ backend = "Some"
  /\ lockHolder = "free"
  /\ child = "running"
  /\ listening = FALSE
  /\ elapsed = 0
  /\ lastError = None
  /\ waitResult = WaitPending
  /\ earlyExit = FALSE
  /\ windows = 0
  /\ readyPending = FALSE
  /\ exitRequested = FALSE
  /\ exitCode = -1
  /\ spawns = 1
  /\ kills = 0
  /\ waits = 0
  /\ sdCalls = 0
  /\ overwrote = FALSE

\* The call site each thread of the harness calls shutdown_backend from.
SiteOf(t) ==
  CASE t = "main" -> "setup_fail"
    [] t = "menu" -> "menu_quit"
    [] t = "exit" -> "exit_requested"

\* Thread t enters shutdown_backend.  The failure path and the
\* ExitRequested handler run once, Quit may be chosen again.
ConcCall(t) ==
  /\ Running
  /\ pc[t] = "idle"
  /\ calls[t] < (IF t = "menu" THEN MaxCalls ELSE 1)
  /\ calls' = [calls EXCEPT ![t] = @ + 1]
  /\ CallShutdown(t, SiteOf(t))
  /\ UNCHANGED <<taken, cliVars, envVars, handleVars, procVars, waitVars, guiVars,
                 countVars, exitCode>>

\* std::process::exit(1) on the failure path
ConcExit1(t) ==
  /\ Running
  /\ pc[t] = "exit1"
  /\ Exit(t, 1)
  /\ UNCHANGED <<caller, taken, calls, cliVars, envVars, handleVars, procVars, waitVars,
                 guiVars, countVars>>

ConcNext ==
  \/ \E t \in Threads : ConcCall(t)
  \/ \E t \in Threads : SdTake(t)
  \/ \E t \in Threads : SdKill(t)
  \/ \E t \in Threads : SdWait(t)
  \/ \E t \in Threads : AppExit(t)
  \/ \E t \in Threads : ConcExit1(t)
  \/ \E t \in Threads : Exit0(t)
  \/ BackendListens
  \/ BackendExits

SpecConc == ConcInit /\ [][ConcNext]_vars

(***************************************************************************)
(* Properties.                                                             *)
(***************************************************************************)
\* spawn_backend has been called: validation returned Ok in run().
SpawnAttempted == vres.done /\ vres.err = None

Exited(code) == pc[M] = "exited" /\ exitCode = code

\* C1: in run(), spawn_backend is reached only after validate_backend_args
\* returned Ok on the passthrough list; when validation fails no backend
\* process is ever created, the handle stays empty and the launcher exits
\* with code 1.
C1_ValidateBeforeSpawn ==
  /\ (pc[M] \in {"spawn", "spawn_store"} \/ spawns > 0 \/ child # "none" \/ backend = "Some")
       => /\ vres.done
          /\ vres.err = None
          /\ validate_backend_args(cli.extra_args) = None
  /\ (vres.done /\ vres.err # None)
       => /\ spawns = 0
          /\ child = "none"
          /\ backend = "None"
          /\ pc[M] \in {"fail", "sd_lock", "exit1", "exited"}
          /\ (pc[M] = "exited" => exitCode = 1)

\* Validation failed and the launcher has exited with code 1, no child created.
C1_Witness ==
  /\ vres.done
  /\ vres.err # None
  /\ Exited(1)
  /\ spawns = 0

\* C2: when spawn_backend, wait_for_backend or the window creation after it
\* fails during startup, then when the launcher exits the handle is empty and
\* every child that was started has been killed and waited for.
C2_FailedStartupLeavesNoChild ==
  (SpawnAttempted /\ Exited(1))
    => /\ backend = "None"
       /\ lockHolder = "free"
       /\ child \in {"none", "reaped"}
       /\ kills = spawns
       /\ waits = spawns

\* The backend became ready, window creation failed, and the launcher exited
\* with code 1 after killing and reaping the child.
C2_Witness ==
  /\ SpawnAttempted
  /\ Exited(1)
  /\ waitResult.kind = "Ok"
  /\ spawns = 1
  /\ child = "reaped"
  /\ kills = 1
  /\ waits = 1

\* C3: shutdown_backend is idempotent.  A call that finds no handle issues
\* no kill and no wait, changes nothing and returns; a call that finds the
\* handle clears it, kills the child and waits for it; and once one call has
\* completed the handle is empty and the kills and waits issued equal the
\* children spawned (none if nothing was spawned, one each after a spawn),
\* however many calls follow.
C3_ShutdownIdempotent ==
  /\ [](sdCalls >= 1 => /\ backend = "None"
                        /\ kills = spawns
                        /\ waits = spawns
                        /\ child \in {"none", "reaped"})
  /\ [][\A t \in Threads :
          /\ (pc[t] = "sd_lock" /\ pc'[t] # "sd_lock" /\ backend = "None")
               => /\ pc'[t] = Cont(caller[t])
                  /\ UNCHANGED <<backend, lockHolder, child, listening, kills, waits>>
          /\ (pc[t] = "sd_lock" /\ pc'[t] # "sd_lock" /\ backend = "Some")
               => /\ pc'[t] = "sd_kill"
                  /\ backend' = "None"
          /\ (pc[t] = "sd_wait" /\ pc'[t] # "sd_wait")
               => /\ pc'[t] = Cont(caller[t])
                  /\ backend' = "None"
                  /\ child' = "reaped"
                  /\ kills' = spawns
                  /\ waits' = spawns]_vars

\* Two shutdown_backend calls have completed after a spawn: one kill and one
\* wait were issued in total.
C3_Witness ==
  /\ sdCalls = 2
  /\ spawns = 1
  /\ kills = 1
  /\ waits = 1
  /\ backend = "None"

\* C4: at most one backend process handle exists per launcher instance:
\* spawn_backend creates at most one child per run and never stores a child
\* into a handle that is already occupied.
C4_AtMostOneHandle ==
  /\ spawns <= 1
  /\ ~overwrote
  /\ (backend = "Some" => spawns = 1 /\ child # "none")

\* The one child has been spawned and its handle is stored.
C4_Witness ==
  /\ spawns = 1
  /\ backend = "Some"
  /\ pc[M] = "event_loop"

\* C5: if the backend process exits before any probe has succeeded,
\* wait_for_backend returns the "exited unexpectedly" error, never Ok and
\* never the not-ready error.
C5_EarlyExitIsReported ==
  (earlyExit /\ waitResult.kind # "Pending") => waitResult.kind = "Exited"

ShutdownInProgress ==
  \E t \in Threads :
    \/ pc[t] \in {"sd_kill", "sd_wait"}
    \/ pc[t] = "sd_lock" /\ backend = "Some"

SupState ==
  IF ~SpawnAttempted THEN "NotStarted"
  ELSE IF pc[M] \in {"spawn", "spawn_store"} THEN "Spawning"
  ELSE IF ShutdownInProgress THEN "ShuttingDown"
  ELSE IF backend = "Some"
  THEN (IF waitResult.kind = "Ok" THEN "Ready" ELSE "AwaitingReady")
  ELSE "Terminated"

\* The transitions of the state machine as the specification lists them.
ListedEdges ==
  { <<"NotStarted", "Spawning">>, <<"Spawning", "AwaitingReady">>,
    <<"AwaitingReady", "Ready">>, <<"Ready", "ShuttingDown">>,
    <<"ShuttingDown", "Terminated">>, <<"Spawning", "Terminated">>,
    <<"AwaitingReady", "Terminated">> }

\* The transitions the launcher makes: a failed readiness poll (early exit or
\* timeout) goes through the failure path's shutdown, which kills and reaps
\* the child; only a failed spawn goes to Terminated directly.
LauncherEdges ==
  { <<"NotStarted", "Spawning">>, <<"Spawning", "AwaitingReady">>,
    <<"AwaitingReady", "Ready">>, <<"Ready", "ShuttingDown">>,
    <<"ShuttingDown", "Terminated">>, <<"Spawning", "Terminated">>,
    <<"AwaitingReady", "ShuttingDown">> }

\* Windows exist only after wait_for_backend returned Ok, and a window is
\* created only then.
WindowsOnlyWhenReady ==
  /\ [](windows > 0 => waitResult.kind = "Ok")
  /\ [][windows' > windows => (waitResult.kind = "Ok" /\ pc[M] \in {"create_window", "event_loop"})]_vars

\* C7 (as amended): the supervisor only moves along NotStarted -> Spawning
\* -> AwaitingReady -> Ready -> ShuttingDown -> Terminated, plus Spawning ->
\* Terminated when the spawn fails and AwaitingReady -> ShuttingDown when
\* readiness polling fails (early exit or timeout); the first window is
\* created only after wait_for_backend returned Ok, Ready is entered only
\* from AwaitingReady, and no state is revisited.
C7_SupervisorStateMachine ==
  /\ WindowsOnlyWhenReady
  /\ [][SupState' # SupState => <<SupState, SupState'>> \in LauncherEdges]_vars
  /\ [](SupState = "Ready" => (waitResult.kind = "Ok" /\ kills = 0 /\ sdCalls = 0))

\* A launch whose readiness poll failed has been shut down.
C7_Witness ==
  /\ SupState = "Terminated"
  /\ waitResult.kind = "NotReady"
  /\ kills = 1
  /\ waits = 1
  /\ windows = 0

\* C7 as stated: only the listed transitions, with AwaitingReady going to
\* Terminated directly.
C7_ListedTransitionsOnly ==
  [][SupState' # SupState => <<SupState, SupState'>> \in ListedEdges]_vars

\* C8: for every interleaving of concurrent shutdown_backend calls on a
\* spawned backend, kill and wait are issued exactly once in total, by the
\* one caller that took the handle; every other caller finds the handle
\* empty and does nothing.
C8_ExactlyOneKill ==
  /\ kills <= 1
  /\ waits <= 1
  /\ Cardinality({t \in Threads : taken[t]}) <= 1
  /\ \A t \in Threads : pc[t] \in {"sd_kill", "sd_wait"} => (taken[t] /\ lockHolder = t)
  /\ (sdCalls >= 1 \/ ~Running)
       => /\ kills = 1
          /\ waits = 1
          /\ backend = "None"
          /\ child = "reaped"

\* Two calls overlap: one thread has killed the child and is reaping it while
\* another is blocked on the lock.
C8_Witness ==
  \E a, b \in Threads :
    /\ a # b
    /\ pc[a] = "sd_wait"
    /\ pc[b] = "sd_lock"
    /\ kills = 1

\* C9: the handle is destroyed on abnormal exit of the backend too: once the
\* backend has exited on its own, the handle is eventually cleared.
C9_DestroyedOnAbnormalExit ==
  (child = "exited" /\ backend = "Some") ~> (backend = "None")

\* The first "--" of an argument list, and what the claim says the parse is:
\* the parse of the tokens before it, then the first token after it as
\* input_path if none was set, and every other token after it appended to
\* extra_args.
HasSeparator(args) == \E i \in 1..Len(args) : args[i] = S_DashDash

SeparatorIndex(args) ==
  CHOOSE i \in 1..Len(args) : args[i] = S_DashDash /\ \A j \in 1..(i - 1) : args[j] # S_DashDash

VerbatimAfterSeparator(args) ==
  LET k == SeparatorIndex(args)
      before == parse_cli_args_from(SubSeq(args, 1, k - 1))
      rest == SubSeq(args, k + 1, Len(args))
  IN IF before.input_path = None /\ rest # <<>>
     THEN [before EXCEPT !.input_path = Some(Head(rest)), !.extra_args = @ \o Tail(rest)]
     ELSE [before EXCEPT !.extra_args = @ \o rest]

\* C10 (as amended): for every argument list containing "--" whose parse
\* reports no port error, every token after the first "--" is taken
\* verbatim: the first becomes input_path if none was set before, the others
\* are appended to extra_args in order, and none sets a flag or the port.
C10_VerbatimAfterSeparator ==
  (cpc = "parsed" /\ HasSeparator(argv) /\ cli.port_error = None)
    => cli = VerbatimAfterSeparator(argv)

\* ["--", "--inspect", "-weird"] parses to input_path "--inspect",
\* extra_args ["-weird"], inspect false.
C10_Witness ==
  /\ cpc = "parsed"
  /\ argv = <<S_DashDash, S_Inspect, T_weird>>
  /\ cli.input_path = Some(S_Inspect)
  /\ cli.extra_args = <<T_weird>>
  /\ ~cli.inspect

\* C10 as stated: for every argument list containing "--".
C10_EveryListWithSeparator ==
  (cpc = "parsed" /\ HasSeparator(argv)) => cli = VerbatimAfterSeparator(argv)

(***************************************************************************)
(* Claims about the parser, token by token.                                *)
(***************************************************************************)
IsFlagShaped(tok) == StartsWith(tok, S_Dash)

\* The tokens the parser keeps for the launcher: --inspect, help, version
\* and the port override in its three forms.
IsLauncherPrivate(tok) ==
  \/ tok \in {S_Inspect, S_Help, S_H, S_Version, S_V, S_Port, S_P}
  \/ StartsWith(tok, S_PortEq)
  \/ StartsWith(tok, S_PEq)

\* The -psn_... token, which the parser drops.
IsSpurious(tok) == StartsWith(tok, S_Psn)

\* No "--" at or before index i.
BeforeSeparator(args, i) == \A j \in 1..i : args[j] # S_DashDash

IsPrefix(a, b) == Len(a) <= Len(b) /\ SubSeq(b, 1, Len(a)) = a

\* The flag at index i takes the token after it as its value.
TakesNextAsValue(args, i) ==
  /\ ~Contains(args[i], "=")
  /\ i + 1 <= Len(args)
  /\ ~IsFlagShaped(args[i + 1])

\* What parsing did with the flag at index i of args, where final is the
\* parse of args: the flag, and its value if it takes one, are appended to
\* extra_args right after what the tokens before i produced, input_path is
\* not touched, and the final extra_args keeps them there.
UnknownFlagCollected(args, i, final) ==
  LET r0 == parse_cli_args_from(SubSeq(args, 1, i - 1))
      r1 == parse_cli_args_from(SubSeq(args, 1, IF TakesNextAsValue(args, i) THEN i + 1 ELSE i))
  IN /\ r1.extra_args = r0.extra_args \o
            (IF TakesNextAsValue(args, i) THEN <<args[i], args[i + 1]>> ELSE <<args[i]>>)
     /\ r1.input_path = r0.input_path
     /\ IsPrefix(r1.extra_args, final.extra_args)
     /\ (r0.input_path # None => final.input_path = r0.input_path)

\* C11 (as amended): in a parse that reports no port error, every
\* flag-shaped token before "--" that is neither launcher-private nor the
\* dropped -psn_ token is appended to extra_args, and when it has no '=' and
\* a next token exists that does not start with '-', that next token is
\* appended right after it as its value and does not become input_path.
C11_UnknownFlagsCollected ==
  (cpc = "parsed" /\ cli.port_error = None) =>
    \A i \in 1..Len(argv) :
      (BeforeSeparator(argv, i) /\ IsFlagShaped(argv[i])
         /\ ~IsLauncherPrivate(argv[i]) /\ ~IsSpurious(argv[i]))
        => UnknownFlagCollected(argv, i, cli)

\* ["--foo", "x", "file"] parses to input_path "file", extra_args
\* ["--foo", "x"].
C11_Witness ==
  /\ cpc = "parsed"
  /\ argv = <<T_foo, T_x, T_file>>
  /\ cli.input_path = Some(T_file)
  /\ cli.extra_args = <<T_foo, T_x>>

\* C11 as stated: every flag-shaped token before "--" that is not
\* launcher-private, in every parse.
C11_EveryNonPrivateFlag ==
  cpc = "parsed" =>
    \A i \in 1..Len(argv) :
      (BeforeSeparator(argv, i) /\ IsFlagShaped(argv[i]) /\ ~IsLauncherPrivate(argv[i]))
        => UnknownFlagCollected(argv, i, cli)

\* Index of the first "--", or one past the end when there is none.
FirstSeparator(args) ==
  IF HasSeparator(args) THEN SeparatorIndex(args) ELSE Len(args) + 1

\* The token at index i is the value of a --port or -p before it.
IsPortValue(args, i) ==
  /\ 1 < i
  /\ i < FirstSeparator(args)
  /\ args[i - 1] \in {S_Port, S_P}

\* The token at index i is taken as the value of the flag before it.
IsFlagValue(args, i) ==
  /\ 1 < i
  /\ i < FirstSeparator(args)
  /\ ~IsFlagShaped(args[i])
  /\ IsFlagShaped(args[i - 1])
  /\ ~IsLauncherPrivate(args[i - 1])
  /\ ~IsSpurious(args[i - 1])
  /\ ~Contains(args[i - 1], "=")

\* Tokens that reach neither input_path nor extra_args: the separator, and
\* before it the launcher-private tokens, port values and -psn_ tokens.
IsDropped(args, i) ==
  \/ i = FirstSeparator(args)
  \/ /\ i < FirstSeparator(args)
     /\ (IsLauncherPrivate(args[i]) \/ IsSpurious(args[i]) \/ IsPortValue(args, i))

\* Tokens that can become input_path: before "--" the tokens that are not
\* flag-shaped and not a value, after "--" every token.
IsCandidate(args, i) ==
  \/ i > FirstSeparator(args)
  \/ /\ i < FirstSeparator(args)
     /\ ~IsFlagShaped(args[i])
     /\ ~IsPortValue(args, i)
     /\ ~IsFlagValue(args, i)

\* The same, read from the claim's words: the tokens that are not
\* flag-shaped and not a value, wherever they stand.
IsNonFlagCandidate(args, i) ==
  /\ i # FirstSeparator(args)
  /\ ~IsFlagShaped(args[i])
  /\ ~IsPortValue(args, i)
  /\ ~IsFlagValue(args, i)

\* Smallest index satisfying Cand, 0 when there is none.
FirstIndexWhere(args, Cand(_, _)) ==
  IF \E i \in 1..Len(args) : Cand(args, i)
  THEN CHOOSE i \in 1..Len(args) : Cand(args, i) /\ \A j \in 1..(i - 1) : ~Cand(args, j)
  ELSE 0

\* The parse result's input_path and extra_args when the token at index
\* inputIndex becomes input_path and every other token that is not dropped
\* goes to extra_args in order.
SplitAt(args, inputIndex) ==
  LET kept == SelectSeq([i \in 1..Len(args) |-> i],
                        LAMBDA i : ~IsDropped(args, i) /\ i # inputIndex)
  IN [input_path |-> IF inputIndex = 0 THEN None ELSE Some(args[inputIndex]),
      extra_args |-> [k \in 1..Len(kept) |-> args[kept[k]]]]

\* C12 (as amended): in every parse without a port error, input_path is the
\* first token that is either after the first "--" (whatever its shape) or,
\* before it, not flag-shaped and not the value of a preceding flag; every
\* other token that is not launcher-private, not a port value, not the
\* separator and not a -psn_ token is in extra_args exactly once, in order.
C12_InputThenPassthrough ==
  (cpc = "parsed" /\ cli.port_error = None) =>
    LET expected == SplitAt(argv, FirstIndexWhere(argv, IsCandidate))
    IN /\ cli.input_path = expected.input_path
       /\ cli.extra_args = expected.extra_args

\* ["-weird", "x", "file"]: "x" is the value of -weird, "file" is the first
\* token that is not a flag and not a value.
C12_Witness ==
  /\ cpc = "parsed"
  /\ argv = <<T_weird, T_x, T_file>>
  /\ cli.port_error = None
  /\ cli.input_path = Some(T_file)
  /\ cli.extra_args = <<T_weird, T_x>>

\* C12 as stated: input_path is the first token that is not flag-shaped and
\* not the value of a preceding flag.
C12_FirstNonFlagIsInput ==
  (cpc = "parsed" /\ cli.port_error = None) =>
    LET expected == SplitAt(argv, FirstIndexWhere(argv, IsNonFlagCandidate))
    IN /\ cli.input_path = expected.input_path
       /\ cli.extra_args = expected.extra_args

(***************************************************************************)
(* The port override on every port number: the launcher is given           *)
(* `--port n`, `-p n`, `--port=n` or `-p=n` for each n of a u16.            *)
(***************************************************************************)
PortForms == {"long", "short", "long_inline", "short_inline"}

PortTokens(form, n) ==
  CASE form = "long" -> <<S_Port, ToDecimal(n)>>
    [] form = "short" -> <<S_P, ToDecimal(n)>>
    [] form = "long_inline" -> <<S_PortEq \o ToDecimal(n)>>
    [] form = "short_inline" -> <<S_PEq \o ToDecimal(n)>>

\* Port numbers that are also given between a positional token and a
\* following one.
PortSamples == {0, 80, 3003, 32768, U16_MAX}

\* Every port number in each form on its own, and the samples between a
\* positional token and a following one.
PortInit ==
  /\ \E form \in PortForms :
       \/ \E n \in 0..U16_MAX : argv = PortTokens(form, n)
       \/ \E n \in PortSamples : argv = <<T_file>> \o PortTokens(form, n) \o <<T_x>>
  /\ cli = CliArgsDefault
  /\ vres = [done |-> FALSE, err |-> None]
  /\ cpc = "args"
  /\ pc = [t \in Threads |-> "idle"]
  /\ resources = ResourcesPresent
  /\ link = "absent"
  /\ SupervisorInit
  /\ platform = "linux"
  /\ ~foreign

PortNext == CliParse

SpecPort == PortInit /\ [][PortNext]_vars

\* Index in args of the first port flag, 0 when there is none.
PortFlagIndex(args) ==
  FirstIndexWhere(args, LAMBDA a, i : \/ a[i] \in {S_Port, S_P}
                                      \/ StartsWith(a[i], S_PortEq)
                                      \/ StartsWith(a[i], S_PEq))

\* The literal given to the port flag at index f: the next token, or the
\* text after the first '='.
PortLiteral(args, f) ==
  IF args[f] \in {S_Port, S_P} THEN args[f + 1]
  ELSE SubSeq(args[f], FirstIndex(args[f], "=") + 1, Len(args[f]))

\* C13: for every n in 0..65535, `--port n`, `-p n` and `--port=n` (and
\* `-p=n`) yield port = n with no port error, and neither the flag nor its
\* value is in extra_args.
C13_PortFormsParse ==
  cpc = "parsed" =>
    LET f == PortFlagIndex(argv)
    IN /\ f # 0
       /\ cli.port_error = None
       /\ cli.port # None
       /\ cli.port[1] \in 0..U16_MAX
       /\ ToDecimal(cli.port[1]) = PortLiteral(argv, f)
       /\ \A k \in 1..Len(cli.extra_args) :
            cli.extra_args[k] # argv[f] /\ cli.extra_args[k] # PortLiteral(argv, f)
       /\ cli.extra_args = SubSeq(argv, Len(argv) - Len(cli.extra_args) + 1, Len(argv))
       /\ Len(cli.extra_args) = (IF argv[1] = T_file THEN 1 ELSE 0)

\* `--port 3003` between "file" and "x" has been parsed: port 3003, "x" alone
\* in extra_args.
C13_Witness ==
  /\ cpc = "parsed"
  /\ argv = <<T_file, S_Port, T_3003, T_x>>
  /\ cli.port = Some(3003)
  /\ cli.port_error = None
  /\ cli.extra_args = <<T_x>>

\* The parse result carries an "Invalid port number" error (a value that
\* does not parse as u16), not the "Missing value" one.
HasInvalidPortError(result) ==
  /\ result.port_error # None
  /\ StartsWith(result.port_error[1], S_InvalidPort)

\* The token at which parsing stopped with that error: the shortest prefix
\* of args whose parse already carries it ends there.
ErrorPoint(args) ==
  CHOOSE m \in 1..Len(args) :
    /\ parse_cli_args_from(SubSeq(args, 1, m)).port_error = parse_cli_args_from(args).port_error
    /\ \A j \in 1..(m - 1) :
         parse_cli_args_from(SubSeq(args, 1, j)).port_error # parse_cli_args_from(args).port_error

\* The token at the error point is the value of a --port or -p before it.
IsTwoTokenForm(args, m) ==
  /\ m > 1
  /\ parse_cli_args_from(SubSeq(args, 1, m - 1)).port_error = Some(S_MissingPort)

\* The value as the user wrote it: the token after the flag, or the text
\* after the first '=' of an inline form.
OffendingLiteral(args) ==
  LET m == ErrorPoint(args)
  IN IF IsTwoTokenForm(args, m) THEN args[m]
     ELSE SubSeq(args[m], FirstIndex(args[m], "=") + 1, Len(args[m]))

\* The value as the parser extracted it: the token after the flag, or the
\* inline token with every leading repetition of its prefix removed.
ExtractedValue(args) ==
  LET m == ErrorPoint(args)
  IN IF IsTwoTokenForm(args, m) THEN args[m]
     ELSE IF StartsWith(args[m], S_PortEq) THEN TrimStartMatches(args[m], S_PortEq)
     ELSE TrimStartMatches(args[m], S_PEq)

\* Index of the port flag on which parsing stopped.
OffendingFlagIndex(args) ==
  IF IsTwoTokenForm(args, ErrorPoint(args)) THEN ErrorPoint(args) - 1 ELSE ErrorPoint(args)

\* The parse of the tokens before that flag.
BeforeOffendingFlag(args) ==
  parse_cli_args_from(SubSeq(args, 1, OffendingFlagIndex(args) - 1))

IsPortOverride(tok) ==
  \/ tok \in {S_Port, S_P}
  \/ StartsWith(tok, S_PortEq)
  \/ StartsWith(tok, S_PEq)

\* C14 (as amended): whenever the result carries an invalid-port error, the
\* error text is "Invalid port number: " followed by the value as the parser
\* extracted it (which does not parse as u16), and port is what the tokens
\* before the offending flag left: absent unless an earlier port override
\* had parsed.
C14_InvalidPortReported ==
  (cpc = "parsed" /\ HasInvalidPortError(cli)) =>
    /\ ParseU16(ExtractedValue(argv)) = None
    /\ cli.port_error = Some(S_InvalidPort \o ExtractedValue(argv))
    /\ ContainsStr(cli.port_error[1], ExtractedValue(argv))
    /\ cli.port = BeforeOffendingFlag(argv).port
    /\ (\A i \in 1..(OffendingFlagIndex(argv) - 1) : ~IsPortOverride(argv[i]))
         => cli.port = None

\* ["--port", "70000"]: the value is out of range, the error names 70000 and
\* there is no port.
C14_Witness ==
  /\ cpc = "parsed"
  /\ argv = <<S_Port, T_70000>>
  /\ cli.port = None
  /\ cli.port_error = Some(S_InvalidPort \o T_70000)

\* C14 as stated: the error text contains the literal the user wrote and
\* port is absent.
C14_LiteralAndNoPort ==
  (cpc = "parsed" /\ HasInvalidPortError(cli)) =>
    /\ ContainsStr(cli.port_error[1], OffendingLiteral(argv))
    /\ cli.port = None

(***************************************************************************)
(* The validator on its own, on every list of up to MaxArgs tokens drawn   *)
(* from known and unknown options of each arity and form.                  *)
(***************************************************************************)
ValTokens ==
  { S_DashDash, S_Dash, S_H, T_foo, T_fooEq, T_ver, T_no, T_log_protocol, T_weird,
    T_threads, T_threadsEq, T_t, T_pEq80, T_no_log, T_no_logEq, T_no_logEqEmpty,
    T_4, T_bar, T_empty }

ValInit ==
  /\ argv \in SeqsUpTo(ValTokens, MaxArgs)
  /\ cli = CliArgsDefault
  /\ vres = [done |-> FALSE, err |-> None]
  /\ cpc = "args"
  /\ pc = [t \in Threads |-> "idle"]
  /\ resources = ResourcesPresent
  /\ link = "absent"
  /\ SupervisorInit
  /\ platform = "linux"
  /\ ~foreign

ValNext == CliValidateRaw

SpecVal == ValInit /\ [][ValNext]_vars

\* The token at index i is one the validator looks at as an option: the
\* tokens before it validate, none of them is "--", and it is flag-shaped
\* (starts with "--", or with "-" and is not "-" alone).
IsValidatedOption(args, i) ==
  /\ validate_backend_args(SubSeq(args, 1, i - 1)) = None
  /\ BeforeSeparator(args, i)
  /\ IsFlagShaped(args[i])
  /\ args[i] # S_Dash

\* The part of a token before its first '=', or all of it.
OptionName(tok) ==
  IF Contains(tok, "=") THEN SubSeq(tok, 1, FirstIndex(tok, "=") - 1) ELSE tok

HasInlineValue(tok) == Contains(tok, "=")

KnownLongNames == {BACKEND_LONG_OPTIONS[i][1] : i \in 1..Len(BACKEND_LONG_OPTIONS)}

KnownShortNames == {BACKEND_SHORT_OPTIONS[i][1] : i \in 1..Len(BACKEND_SHORT_OPTIONS)}

IsKnownOption(name) == name \in KnownLongNames \cup KnownShortNames

IsLongOption(name) == StartsWith(name, S_DashDash)

\* The known long options that start with name.
Completions(name) == {known \in KnownLongNames : StartsWith(known, name)}

\* C15: for an unknown option name N, validate_backend_args fails with a
\* message naming N, and the message contains "Did you mean X?" if and only
\* if N is a long option and exactly one known long option X starts with N;
\* short options never get a suggestion.
C15_UnknownOptionMessage ==
  cpc = "validated_raw" =>
    \A i \in 1..Len(argv) :
      (IsValidatedOption(argv, i) /\ ~IsKnownOption(OptionName(argv[i]))) =>
        LET N == OptionName(argv[i]) IN
        /\ vres.err # None
        /\ StartsWith(vres.err[1], S_Unsupported \o N)
        /\ ContainsStr(vres.err[1], S_DidYouMean)
             <=> (IsLongOption(N) /\ Cardinality(Completions(N)) = 1)
        /\ \A X \in Completions(N) :
             (IsLongOption(N) /\ Cardinality(Completions(N)) = 1)
               => ContainsStr(vres.err[1], S_DidYouMean \o X \o S_QMark)
        /\ ~IsLongOption(N) => ~ContainsStr(vres.err[1], S_DidYouMean)

\* ["--log_protocol"] has been rejected with the suggestion
\* --log_protocol_messages.
C15_Witness ==
  /\ cpc = "validated_raw"
  /\ argv = <<T_log_protocol>>
  /\ vres.err # None
  /\ ContainsStr(vres.err[1], S_Unsupported \o T_log_protocol)
  /\ ContainsStr(vres.err[1],
       S_DidYouMean \o T_log_protocol \o <<"_", "m", "e", "s", "s", "a", "g", "e", "s">> \o S_QMark)

\* The arity of a known option name, from the two tables.
RequiresValue(name) ==
  \/ \E i \in 1..Len(BACKEND_LONG_OPTIONS) :
       BACKEND_LONG_OPTIONS[i][1] = name /\ BACKEND_LONG_OPTIONS[i][2] = "Required"
  \/ \E i \in 1..Len(BACKEND_SHORT_OPTIONS) :
       BACKEND_SHORT_OPTIONS[i][1] = name /\ BACKEND_SHORT_OPTIONS[i][2] = "Required"

TakesNoValue(name) == IsKnownOption(name) /\ ~RequiresValue(name)

\* The tokens of args after index i.
After(args, i) == SubSeq(args, i + 1, Len(args))

\* C16: a known option that requires a value and has no inline value fails
\* with "requires a value" when no next token exists or the next token is
\* flag-shaped; otherwise it is accepted and validation goes on after the
\* next token, which is not validated; with an inline '=value' it is
\* accepted and validation goes on with the next token.
C16_RequiredValue ==
  cpc = "validated_raw" =>
    \A i \in 1..Len(argv) :
      (IsValidatedOption(argv, i) /\ RequiresValue(OptionName(argv[i]))) =>
        IF HasInlineValue(argv[i])
        THEN vres.err = validate_backend_args(After(argv, i))
        ELSE IF i = Len(argv) \/ IsFlagShaped(argv[i + 1])
        THEN vres.err = Some(S_BackendOption \o argv[i] \o S_RequiresValue)
        ELSE vres.err = validate_backend_args(After(argv, i + 1))

\* ["--threads", "4", "--foo"]: --threads took "4", and validation went on
\* to reject --foo.
C16_Witness ==
  /\ cpc = "validated_raw"
  /\ argv = <<T_threads, T_4, T_foo>>
  /\ vres.err # None
  /\ StartsWith(vres.err[1], S_Unsupported \o T_foo)

\* C17: a known option that takes no value fails with "does not take a
\* value" if and only if the token carries an inline '=' (even with nothing
\* after it); without one it is accepted and the result is that of
\* validating the tokens after it on their own.
C17_NoValueOption ==
  cpc = "validated_raw" =>
    \A i \in 1..Len(argv) :
      (IsValidatedOption(argv, i) /\ TakesNoValue(OptionName(argv[i]))) =>
        /\ HasInlineValue(argv[i])
             => vres.err = Some(S_BackendOption \o OptionName(argv[i]) \o S_NoValue)
        /\ ~HasInlineValue(argv[i])
             => vres.err = validate_backend_args(After(argv, i))

\* ["--no_log="] has been rejected: the empty inline value is a value.
C17_Witness ==
  /\ cpc = "validated_raw"
  /\ argv = <<T_no_logEqEmpty>>
  /\ vres.err = Some(S_BackendOption \o T_no_log \o S_NoValue)

\* C18: validation stops at the first "--": the result for a list with a
\* "--" is the result for the tokens before the first "--", so a list that
\* validates still validates with "--" and anything else appended, and an
\* error before the separator is still reported.
C18_StopsAtSeparator ==
  cpc = "validated_raw" =>
    \A k \in 1..Len(argv) :
      (argv[k] = S_DashDash /\ BeforeSeparator(argv, k - 1)) =>
        /\ vres.err = validate_backend_args(SubSeq(argv, 1, k - 1))
        /\ validate_backend_args(SubSeq(argv, 1, k - 1)) = None => vres.err = None

\* ["--no_log", "--", "--foo"] validates although --foo is unknown.
C18_Witness ==
  /\ cpc = "validated_raw"
  /\ argv = <<T_no_log, S_DashDash, T_foo>>
  /\ vres.err = None
  /\ validate_backend_args(<<T_foo>>) # None

(***************************************************************************)
(* spawn_backend on every installation: the launcher is about to call      *)
(* spawn_backend (validation has passed), with any combination of missing  *)
(* resources and anything at the symlink location.                         *)
(***************************************************************************)
LaunchInit ==
  /\ argv = <<>>
  /\ cli = parse_cli_args_from(<<>>)
  /\ vres = [done |-> TRUE, err |-> None]
  /\ cpc = "run"
  /\ platform \in Platforms
  /\ current_dir = CwdText(platform)
  /\ foreign = FALSE
  /\ backend_port \in PickablePorts
  /\ resources \in ResourceStates
  /\ link \in LinkStates
  /\ spawnError = None
  /\ inst = [l \in Launchers |-> [pc |-> "idle", result |-> None]]
  /\ linkTarget = "absent"
  /\ within = None
  /\ launcherOut = [s \in Streams |-> <<>>]
  /\ childWrote = [s \in Streams |-> <<>>]
  /\ drain = [s \in Streams |-> "none"]
  /\ pipeOpen = [s \in Streams |-> FALSE]
  /\ pipeLines = [s \in Streams |-> <<>>]
  /\ help_result = "none"
  /\ inputKind = "file"
  /\ command = None
  /\ top_level_path = S_Slash
  /\ base_dir = CwdText(platform)
  /\ etcResults = <<>>
  /\ pc = [t \in Threads |-> IF t = "main" THEN "spawn" ELSE "idle"]
  /\ caller = [t \in Threads |-> "none"]
  /\ taken = [t \in Threads |-> FALSE]
  /\ calls = [t \in Threads |-> 0]
  /\ backend = "None"
  /\ lockHolder = "free"
  /\ child = "none"
  /\ listening = FALSE
  /\ elapsed = 0
  /\ lastError = None
  /\ waitResult = WaitPending
  /\ earlyExit = FALSE
  /\ windows = 0
  /\ readyPending = FALSE
  /\ exitRequested = FALSE
  /\ exitCode = -1
  /\ spawns = 0
  /\ kills = 0
  /\ waits = 0
  /\ sdCalls = 0
  /\ overwrote = FALSE

\* spawn_backend, and run()'s failure path after it.
LaunchNext ==
  \/ SpawnCommand(M)
  \/ SpawnStore(M)
  \/ RunFail
  \/ SdTake(M)
  \/ RunExit1

SpecLaunch == LaunchInit /\ [][LaunchNext]_vars

\* spawn_backend has returned.
SpawnReturned == pc[M] \notin {"spawn", "spawn_store"}

\* The paths spawn_backend resolves before the etc directory are resolved:
\* the resource directory is known and, on Windows, the paths convert.
PathsResolve == resources.resource_dir /\ (platform = "windows" => resources.wsl_paths)

\* C19 (as amended): when the resource directory is known, the launch fails
\* with the backend-binary-not-found error if the executable is missing,
\* otherwise with the frontend-directory-not-found error if the frontend
\* directory is missing, otherwise (when on Windows the paths convert to WSL
\* form) with the etc-directory-not-found error if the etc directory is
\* missing; the three messages differ, and whenever spawn_backend fails no
\* child is created, the handle stays empty and the launcher exits with 1.
C19_MissingResourceErrors ==
  /\ SpawnReturned =>
       /\ (resources.resource_dir /\ ~resources.backend)
            => spawnError = Some("backend/bin/carta_backend binary not found")
       /\ (resources.resource_dir /\ resources.backend /\ ~resources.frontend)
            => spawnError = Some("frontend directory not found")
       /\ (PathsResolve /\ resources.backend /\ resources.frontend /\ ~resources.etc)
            => spawnError = Some("backend/etc directory not found")
  /\ Cardinality({"backend/bin/carta_backend binary not found", "frontend directory not found",
                  "backend/etc directory not found"}) = 3
  /\ spawnError # None => (child = "none" /\ backend = "None" /\ spawns = 0)
  /\ (spawnError # None /\ ~Running) => exitCode = 1

\* The etc directory alone is missing: the launcher has exited with 1 on the
\* etc-directory-not-found error, without a child.
C19_Witness ==
  /\ resources.backend /\ resources.frontend /\ ~resources.etc
  /\ spawnError = Some("backend/etc directory not found")
  /\ exitCode = 1
  /\ child = "none"
  /\ backend = "None"

\* C19 as stated: the three errors by what is missing alone.
C19_ByMissingResourceAlone ==
  SpawnReturned =>
    /\ ~resources.backend => spawnError = Some("backend/bin/carta_backend binary not found")
    /\ (resources.backend /\ ~resources.frontend)
         => spawnError = Some("frontend directory not found")
    /\ (resources.backend /\ resources.frontend /\ ~resources.etc)
         => spawnError = Some("backend/etc directory not found")

\* resolve_etc_path is reached by spawn_backend with an etc path that has a
\* space in it.
EtcPathWithSpaceReached ==
  /\ PathsResolve
  /\ resources.backend /\ resources.frontend /\ resources.etc
  /\ resources.etc_space

\* C20: when the resolved etc path contains a space and the symlink location
\* holds something that is not a symlink, resolve_etc_path fails with
\* "symlink path already exists" and leaves the location as it is; nothing
\* the launcher does removes or replaces a non-symlink there.
C20_NonSymlinkUntouched ==
  /\ [](\A plat \in Platforms, res \in ResourceStates :
          (res.etc /\ res.etc_space /\ (plat = "windows" => res.wsl_paths)) =>
            /\ resolve_etc_path(plat, res, "occupied").err = Some("symlink path already exists")
            /\ resolve_etc_path(plat, res, "occupied").link = "occupied")
  /\ [][(pc[M] = "spawn" /\ pc'[M] # "spawn" /\ EtcPathWithSpaceReached /\ link = "occupied")
          => (spawnError' = Some("symlink path already exists") /\ pc'[M] = "fail")]_vars
  /\ [][link = "occupied" => link' = "occupied"]_vars

\* spawn_backend has failed on the occupied symlink location, which is still
\* occupied.
C20_Witness ==
  /\ EtcPathWithSpaceReached
  /\ spawnError = Some("symlink path already exists")
  /\ link = "occupied"
  /\ pc[M] = "fail"

(***************************************************************************)
(* resolve_casa_path, called several times in sequence on one machine.     *)
(***************************************************************************)
\* Most resolve_casa_path calls made in sequence.
MaxResolves == 2

\* Any installation, anything at the symlink location, nothing running.
EtcInit ==
  /\ argv = <<>>
  /\ cli = CliArgsDefault
  /\ vres = [done |-> FALSE, err |-> None]
  /\ cpc = "etc"
  /\ pc = [t \in Threads |-> "idle"]
  /\ resources \in ResourceStates
  /\ link \in LinkStates
  /\ SupervisorInit
  /\ foreign = FALSE

\* One call of resolve_casa_path; nothing else touches the symlink location
\* between two calls.
EtcResolve ==
  /\ cpc = "etc"
  /\ Len(etcResults) < MaxResolves
  /\ LET r == resolve_casa_path(platform, resources, link)
     IN /\ etcResults' = Append(etcResults,
                                [err |-> r.err, path |-> r.path, value |-> r.value,
                                 ops |-> r.ops, before |-> link, after |-> r.link])
        /\ link' = r.link
  /\ UNCHANGED <<cliVars, platform, foreign, backend_port, resources, inst, linkTarget, within, launcherOut, childWrote,
                 drain, pipeOpen, pipeLines, help_result, inputKind, current_dir, command,
                 top_level_path, base_dir, spawnError,
                 threadVars, handleVars, procVars, waitVars, guiVars, countVars, exitCode>>

EtcNext == EtcResolve

SpecEtc == EtcInit /\ [][EtcNext]_vars

\* The etc directory exists, its path has a space in it and (Windows) it
\* converts: resolve_etc_path goes to the symlink location.
EtcNeedsLink ==
  resources.etc /\ resources.etc_space /\ (platform = "windows" => resources.wsl_paths)

CasaMiddle(v) == SubSeq(v, Len(S_CasaPrefix) + 1, Len(v) - Len(S_LinuxSuffix))

\* C22: whenever resolve_casa_path succeeds, its value is "../../../../../",
\* then a path without a space (the resolved etc path when that has no
\* space, the symlink path otherwise), then " linux"; the value has exactly
\* one space and splits on spaces into two fields, the second one "linux".
C22_CasaPathFormat ==
  \A i \in 1..Len(etcResults) :
    etcResults[i].err = None =>
      LET v == etcResults[i].value
      IN /\ Len(v) >= Len(S_CasaPrefix) + Len(S_LinuxSuffix)
         /\ StartsWith(v, S_CasaPrefix)
         /\ SubSeq(v, Len(v) - Len(S_LinuxSuffix) + 1, Len(v)) = S_LinuxSuffix
         /\ ~Contains(CasaMiddle(v), " ")
         /\ CasaMiddle(v) = (IF resources.etc_space THEN S_LinkPath ELSE S_EtcPlain)
         /\ CountChar(v, " ") = 1
         /\ Len(SplitOn(v, " ")) = 2
         /\ SplitOn(v, " ")[2] = S_Linux

\* resolve_casa_path succeeded for an etc path that has a space in it.
C22_Witness ==
  /\ resources.etc_space
  /\ \E i \in 1..Len(etcResults) :
       etcResults[i].err = None /\ CasaMiddle(etcResults[i].value) = S_LinkPath

\* C29 as stated: a symlink with another target is removed and created
\* again, and whenever the symlink path is returned the location holds a
\* symlink to the resolved etc directory.
C29_ReturnedLinkIsCurrent ==
  \A i \in 1..Len(etcResults) :
    /\ (EtcNeedsLink /\ etcResults[i].before \in {"stale", "stale_dir"} /\ resources.link_writable)
         => (etcResults[i].ops = <<"remove", "symlink">> /\ etcResults[i].after = "current")
    /\ (etcResults[i].err = None /\ etcResults[i].path = "link")
         => etcResults[i].after = "current"

(***************************************************************************)
(* run() up to the tauri Builder, on machines with several working         *)
(* directories, input paths and --top_level_folder values.                 *)
(***************************************************************************)
\* Input paths given to the launcher: relative, with a parent segment,
\* absolute inside and outside the working directory, (Windows) in WSL form
\* and on a share.
BaseInputs(plat) ==
  IF plat = "windows"
  THEN {<<"f">>, <<".",".","\\","e","\\","f">>, <<"C",":","\\","d","\\","x","\\","f">>, <<"C",":","\\","e","\\","f">>, <<"/","m","n","t","/","c","/","d","/","f">>, <<"\\","\\","s","r","v","\\","f">>}
  ELSE {<<"f">>, <<".",".","/","e","/","f">>, <<"/","d","/","x","/","f">>, <<"/","e","/","f">>}

\* Values of --top_level_folder.
BaseTopLevels(plat) ==
  IF plat = "windows"
  THEN {<<"C",":","\\","d">>, <<"/","m","n","t","/","c","/","d">>, <<"D",":","\\","t">>, <<"x">>}
  ELSE {<<"/","d">>, <<"/","d","/">>, <<"/","d","/","x">>, <<"x">>}

\* The working directories: an ordinary one and the root.
BaseCwds(plat) == {CwdText(plat)} \cup (IF plat = "windows" THEN {} ELSE {S_Slash})

BaseInit ==
  /\ platform \in Platforms
  /\ current_dir \in BaseCwds(platform)
  /\ inputKind \in {"file", "dir", "missing"}
  /\ \E input \in {<<>>} \cup {<<i>> : i \in BaseInputs(platform)},
        top \in {<<>>} \cup {<<S_TopLevelFolder, t>> : t \in BaseTopLevels(platform)}
                \cup {<<S_TopLevelFolderEq \o t>> : t \in BaseTopLevels(platform)} :
       argv = input \o top
  /\ cli = CliArgsDefault
  /\ vres = [done |-> FALSE, err |-> None]
  /\ cpc = "run"
  /\ pc = [t \in Threads |-> IF t = "main" THEN "parse_cli" ELSE "idle"]
  /\ resources = ResourcesPresent
  /\ link = "absent"
  /\ foreign = FALSE
  /\ backend_port = 0
  /\ spawnError = None
  /\ inst = [l \in Launchers |-> [pc |-> "idle", result |-> None]]
  /\ linkTarget = "absent"
  /\ within = None
  /\ launcherOut = [s \in Streams |-> <<>>]
  /\ childWrote = [s \in Streams |-> <<>>]
  /\ drain = [s \in Streams |-> "none"]
  /\ pipeOpen = [s \in Streams |-> FALSE]
  /\ pipeLines = [s \in Streams |-> <<>>]
  /\ help_result = "none"
  /\ command = None
  /\ top_level_path = <<>>
  /\ base_dir = <<>>
  /\ etcResults = <<>>
  /\ caller = [t \in Threads |-> "none"]
  /\ taken = [t \in Threads |-> FALSE]
  /\ calls = [t \in Threads |-> 0]
  /\ backend = "None"
  /\ lockHolder = "free"
  /\ child = "none"
  /\ listening = FALSE
  /\ elapsed = 0
  /\ lastError = None
  /\ waitResult = WaitPending
  /\ earlyExit = FALSE
  /\ windows = 0
  /\ readyPending = FALSE
  /\ exitRequested = FALSE
  /\ exitCode = -1
  /\ spawns = 0
  /\ kills = 0
  /\ waits = 0
  /\ sdCalls = 0
  /\ overwrote = FALSE

\* run() from parse_cli_args to the point where AppState is built.
BaseNext ==
  \/ RunParseCli
  \/ RunResolveBase
  \/ RunPickPort
  \/ RunBuild

SpecBase == BaseInit /\ [][BaseNext]_vars

\* The components of a path with every ".." applied to what precedes it
\* (the root has no parent).
RECURSIVE ApplyParents(_, _)
ApplyParents(comps, done) ==
  IF comps = <<>> THEN done
  ELSE IF comps[1] = <<".", ".">>
  THEN ApplyParents(SubSeq(comps, 2, Len(comps)),
                    IF done = <<>> \/ done[Len(done)] = S_Slash THEN done
                    ELSE SubSeq(done, 1, Len(done) - 1))
  ELSE ApplyParents(SubSeq(comps, 2, Len(comps)), Append(done, comps[1]))

\* The directory a path names for the backend: on Windows its WSL form.
BackendView(plat, p) ==
  IF plat = "windows" THEN (IF to_wsl_path_str(p) = None THEN p ELSE to_wsl_path_str(p)[1])
  ELSE p

\* Directory base is top or lies below it.
LiesWithin(plat, base, top) ==
  StartsWith(ApplyParents(PathComponents("linux", BackendView(plat, base)), <<>>),
             ApplyParents(PathComponents("linux", BackendView(plat, top)), <<>>))

\* run() has called ensure_base_dir_within_top_level.
BaseEnsured == pc[M] = "setup"

\* C24 as stated: the base directory handed on after
\* ensure_base_dir_within_top_level is the one resolve_base_directory
\* returned when that lies within the confinement root and the confinement
\* root otherwise, so it always lies within the confinement root.
C24_BaseStaysWithinRoot ==
  BaseEnsured =>
    /\ LiesWithin(platform, base_dir, top_level_path)
    /\ base_dir # top_level_path
         => base_dir \in {resolve_base_directory(platform, cli.input_path, current_dir,
                                                 home, inputKind).path :
                          home \in {None, Some(HomeText(platform))}}

(***************************************************************************)
(* spawn_backend with passthrough lists that need quoting or translation.  *)
(***************************************************************************)
\* Most passthrough arguments after the input path.
MaxExtra == 2

\* Passthrough arguments: empty, with a space, with a single quote, a folder
\* option without inline value, one with a relative inline value, a Windows
\* path, a path in WSL form and a plain option.
CmdTokens ==
  {<<>>, <<"a"," ","b">>, <<"i","t","'","s">>, S_TopLevelFolder,
   S_FrontendFolderEq \o <<"x">>, <<"C",":","\\","e">>, <<"/","e">>, T_no_log}

\* Base directories: plain, with a space, with a single quote, and (Windows)
\* in WSL form.
CmdBaseDirs(plat) ==
  IF plat = "windows"
  THEN {<<"C",":","\\","d">>, <<"C",":","\\","m","y"," ","d">>, <<"/","m","n","t","/","c","/","i","t","'","s">>}
  ELSE {<<"/","d">>, <<"/","m","y"," ","d">>, <<"/","i","t","'","s">>}

\* The launcher is about to call spawn_backend on a complete installation;
\* the passthrough list was given after "--" and an input file.
CmdInit ==
  /\ platform \in Platforms
  /\ current_dir = CwdText(platform)
  /\ inputKind = "file"
  /\ \E extra \in SeqsUpTo(CmdTokens, MaxExtra) : argv = <<S_DashDash, T_file>> \o extra
  /\ cli = parse_cli_args_from(argv)
  /\ vres = [done |-> TRUE, err |-> None]
  /\ cpc = "run"
  /\ pc = [t \in Threads |-> IF t = "main" THEN "spawn" ELSE "idle"]
  /\ resources \in {ResourcesPresent, [ResourcesPresent EXCEPT !.etc_space = TRUE]}
  /\ link = "absent"
  /\ foreign = FALSE
  /\ backend_port \in PortSamples
  /\ spawnError = None
  /\ inst = [l \in Launchers |-> [pc |-> "idle", result |-> None]]
  /\ linkTarget = "absent"
  /\ within = None
  /\ launcherOut = [s \in Streams |-> <<>>]
  /\ childWrote = [s \in Streams |-> <<>>]
  /\ drain = [s \in Streams |-> "none"]
  /\ pipeOpen = [s \in Streams |-> FALSE]
  /\ pipeLines = [s \in Streams |-> <<>>]
  /\ help_result = "none"
  /\ command = None
  /\ top_level_path = S_Slash
  /\ base_dir \in CmdBaseDirs(platform)
  /\ etcResults = <<>>
  /\ caller = [t \in Threads |-> "none"]
  /\ taken = [t \in Threads |-> FALSE]
  /\ calls = [t \in Threads |-> 0]
  /\ backend = "None"
  /\ lockHolder = "free"
  /\ child = "none"
  /\ listening = FALSE
  /\ elapsed = 0
  /\ lastError = None
  /\ waitResult = WaitPending
  /\ earlyExit = FALSE
  /\ windows = 0
  /\ readyPending = FALSE
  /\ exitRequested = FALSE
  /\ exitCode = -1
  /\ spawns = 0
  /\ kills = 0
  /\ waits = 0
  /\ sdCalls = 0
  /\ overwrote = FALSE

SpecCmd == CmdInit /\ [][LaunchNext]_vars

\* bash's quoting state after a character: outside quotes, inside single
\* quotes or inside double quotes.
QuoteStep(mode, c) ==
  IF mode = "single" THEN (IF c = "'" THEN "none" ELSE mode)
  ELSE IF mode = "double" THEN (IF c = "\"" THEN "none" ELSE mode)
  ELSE IF c = "'" THEN "single"
  ELSE IF c = "\"" THEN "double"
  ELSE "none"

\* The quoting states after each of s[lo..hi], entered in state mode.
RECURSIVE QuoteStates(_, _, _, _)
QuoteStates(s, lo, hi, mode) ==
  IF lo > hi THEN <<>>
  ELSE IF lo = hi THEN <<QuoteStep(mode, s[lo])>>
  ELSE LET mid == (lo + hi) \div 2
           left == QuoteStates(s, lo, mid, mode)
       IN left \o QuoteStates(s, mid + 1, hi, left[Len(left)])

\* The words from position from on, given the quoting states: a word ends
\* at an unquoted space, and the quote characters that change the state are
\* not part of it.
RECURSIVE WordsFrom(_, _, _)
WordsFrom(s, after, from) ==
  LET before(i) == IF i = 1 THEN "none" ELSE after[i - 1]
      IsBreak(i) == before(i) = "none" /\ s[i] = " "
      starts == {i \in from..Len(s) : ~IsBreak(i)}
  IN IF starts = {} THEN <<>>
     ELSE LET first == CHOOSE i \in starts : \A j \in starts : i <= j
              breaks == {i \in first..Len(s) : IsBreak(i)}
              last == IF breaks = {} THEN Len(s)
                      ELSE (CHOOSE i \in breaks : \A j \in breaks : i <= j) - 1
              kept == SelectSeq([k \in 1..(last - first + 1) |-> first + k - 1],
                                LAMBDA i : before(i) = after[i])
          IN <<[k \in 1..Len(kept) |-> s[kept[k]]]>> \o WordsFrom(s, after, last + 1)

\* The words bash makes of a command text: split at unquoted spaces, quotes
\* removed, text inside single or double quotes taken as it is.
ShellWords(s) == WordsFrom(s, QuoteStates(s, 1, Len(s), "none"), 1)

\* The text of the shell line after its last "; exec ".
ExecPart(line) ==
  LET starts == {i \in 1..(Len(line) - Len(S_Exec) + 1) :
                   SubSeq(line, i, i + Len(S_Exec) - 1) = S_Exec}
      at == CHOOSE i \in starts : \A j \in starts : j <= i
  IN SubSeq(line, at + Len(S_Exec), Len(line))

\* The program and arguments the backend process is started with: on unix
\* those of the Command, on Windows the words of the exec command.
SpawnedWords ==
  IF platform = "windows" THEN ShellWords(ExecPart(command[1].line))
  ELSE <<command[1].program>> \o command[1].args

\* The passthrough list as the backend receives it: on Windows the value of
\* every --top_level_folder and --frontend_folder is in WSL form.
PassthroughView ==
  IF platform = "windows" THEN normalize_backend_args_for_wsl(cli.extra_args, current_dir).args
  ELSE cli.extra_args

\* C23 (as amended): the backend is started with the base directory,
\* --port=<backend_port>, --frontend_folder=<frontend path>, --no_browser
\* and then the passthrough arguments in their original order; on unix
\* every one of them verbatim, on Windows the same words come out of the
\* shell line, with the backend, base and frontend paths in WSL form and
\* the values of passthrough --top_level_folder / --frontend_folder options
\* translated to WSL form.
C23_BackendArgumentOrder ==
  command # None =>
    LET words == SpawnedWords
        n == Len(cli.extra_args)
    IN /\ Len(words) = 5 + n
       /\ words[1] = BackendView(platform, BackendPathText(platform, resources))
       /\ words[2] = BackendView(platform, base_dir)
       /\ words[3] = S_PortEq \o ToDecimal(backend_port)
       /\ words[4] = S_FrontendFolderEq
                     \o BackendView(platform, FrontendPathText(platform, resources))
       /\ words[5] = S_NoBrowser
       /\ Len(PassthroughView) = n
       /\ \A i \in 1..n : words[5 + i] = PassthroughView[i]
       /\ platform # "windows" => \A i \in 1..n : words[5 + i] = cli.extra_args[i]

\* The backend was started with two passthrough arguments, one of them with
\* a single quote in it.
C23_Witness ==
  /\ command # None
  /\ Len(cli.extra_args) = 2
  /\ \E i \in 1..2 : Contains(cli.extra_args[i], "'")
  /\ child = "running"

\* C23 as stated: the passthrough arguments follow verbatim on both
\* platforms.
C23_PassthroughVerbatim ==
  command # None =>
    /\ Len(SpawnedWords) = 5 + Len(cli.extra_args)
    /\ SpawnedWords[5] = S_NoBrowser
    /\ \A i \in 1..Len(cli.extra_args) : SpawnedWords[5 + i] = cli.extra_args[i]

(***************************************************************************)
(* Help and version dispatch, and the launcher's exit code.                *)
(***************************************************************************)
\* Help or version was requested by a launcher-private token.
HelpRequested == cli.help \/ cli.version

\* The launcher has ended.
LauncherExited == pc[M] = "exited"

\* The supervised launch has not begun: nothing validated, nothing spawned,
\* no readiness polling, no window.
NothingLaunched ==
  /\ ~vres.done
  /\ spawns = 0 /\ child = "none" /\ backend = "None" /\ command = None
  /\ waitResult = WaitPending /\ elapsed = 0
  /\ windows = 0

\* C25 (as amended): when help or version was requested and run() reaches
\* the setup callback (the port parsed, the base directory resolved, a port
\* was found, the application was built), the launcher calls
\* run_backend_help and exits: the passthrough list is never validated, no
\* backend is spawned and nothing is polled; the exit code is 0 exactly when
\* the backend ran and succeeded.  An exit before the setup callback is an
\* exit with code 1 without any backend invocation.
C25_HelpDispatch ==
  /\ HelpRequested => NothingLaunched
  /\ (HelpRequested /\ pc[M] \notin {"parse_cli", "resolve_base", "pick_port", "top_level",
                                      "setup"})
       => LauncherExited
  /\ (HelpRequested /\ LauncherExited)
       => /\ exitCode = (IF help_result = "ok" THEN 0 ELSE 1)
          /\ help_result = "none" => (base_dir = <<>> \/ top_level_path = <<>>
                                        \/ cli.port_error # None)
  /\ help_result # "none" => (HelpRequested /\ LauncherExited)
  /\ help_result \in {"unstarted", "failed", "ok"}
       => (resources.resource_dir /\ resources.backend)

\* The backend's help ran and failed, and the launcher exited with code 1.
C25_Witness ==
  /\ HelpRequested
  /\ help_result = "failed"
  /\ exitCode = 1
  /\ NothingLaunched

\* C25 as stated: whenever help or version was requested, the launcher has
\* invoked the backend's help or version by the time it exits.
C25_AlwaysInvokesHelp ==
  (HelpRequested /\ LauncherExited) => help_result \in {"unstarted", "failed", "ok"}

\* A failure run() ends the launch for: the port did not parse, a path did
\* not resolve (or no port was free, or the application could not be built),
\* validation failed, spawn_backend failed, or the backend did not become
\* ready.
StartupFailed ==
  \/ cli.port_error # None
  \/ LauncherExited /\ (base_dir = <<>> \/ top_level_path = <<>>)
  \/ vres.err # None
  \/ spawnError # None
  \/ waitResult.kind \notin {"Pending", "Ok"}

\* The event loop ended after a quit or after the last window was closed:
\* the backend had become ready and shutdown_backend has run.
NormalShutdown ==
  /\ waitResult.kind = "Ok"
  /\ exitRequested
  /\ sdCalls >= 1
  /\ backend = "None"

\* C26: the launcher exits with code 1 after every port-parse,
\* path-resolution, validation, spawn or readiness failure, no such failure
\* is followed by a window or by the event loop, and it exits with code 0
\* only after a normal shutdown or a successful help/version dispatch.
C26_ExitCodes ==
  /\ exitCode \in {-1, 0, 1}
  /\ LauncherExited <=> exitCode # -1
  /\ StartupFailed
       => /\ exitCode \in {-1, 1}
          /\ windows = 0
          /\ pc[M] \notin {"create_window", "event_loop", "app_exit", "exit0"}
  /\ exitCode = 0 => (help_result = "ok" \/ NormalShutdown)
  /\ (exitCode = 0 /\ help_result = "ok") => ~NormalShutdown

\* The backend did not become ready and the launcher has exited with code 1.
C26_Witness ==
  /\ waitResult.kind = "NotReady"
  /\ exitCode = 1


(***************************************************************************)
(* The two hints of the unknown-option message.                            *)
(***************************************************************************)
\* The text ends with the "Run with --help to see supported options." line.
EndsWithRunWithHelp(text) ==
  /\ Len(text) >= Len(S_RunWithHelp)
  /\ SubSeq(text, Len(text) - Len(S_RunWithHelp) + 1, Len(text)) = S_RunWithHelp

\* The validator has rejected the token at index i of argv as an unknown
\* option.
RejectedUnknownOption(i) ==
  /\ cpc = "validated_raw"
  /\ i \in 1..Len(argv)
  /\ IsValidatedOption(argv, i)
  /\ ~IsKnownOption(OptionName(argv[i]))

\* C27 (as amended): the message for an unknown option always ends with the
\* "Run with --help to see supported options." line; when a suggestion is
\* made, "Did you mean X?" stands between the option's name and that line, so
\* a message with a suggestion carries both hints.
C27_GenericHintAlways ==
  \A i \in 1..Len(argv) :
    RejectedUnknownOption(i) =>
      LET N == OptionName(argv[i]) IN
      /\ vres.err # None
      /\ EndsWithRunWithHelp(vres.err[1])
      /\ IF IsLongOption(N) /\ Cardinality(Completions(N)) = 1
         THEN \E X \in Completions(N) :
                vres.err[1] = S_Unsupported \o N \o S_DidYouMean \o X \o S_QMark
                                \o S_RunWithHelp
         ELSE vres.err[1] = S_Unsupported \o N \o S_RunWithHelp

\* An unknown long option with exactly one completion was rejected with a
\* message that has the suggestion and the generic hint.
C27_Witness ==
  /\ \E i \in 1..Len(argv) :
       /\ RejectedUnknownOption(i)
       /\ IsLongOption(OptionName(argv[i]))
       /\ Cardinality(Completions(OptionName(argv[i]))) = 1
  /\ vres.err # None
  /\ ContainsStr(vres.err[1], S_DidYouMean)
  /\ EndsWithRunWithHelp(vres.err[1])

\* C27 as stated: the generic hint is in the message exactly when no
\* suggestion is.
C27_HintsAreAlternatives ==
  \A i \in 1..Len(argv) :
    RejectedUnknownOption(i) =>
      /\ vres.err # None
      /\ ContainsStr(vres.err[1], S_RunWithHelp) <=> ~ContainsStr(vres.err[1], S_DidYouMean)


(***************************************************************************)
(* Where parsing stops on a port error.                                    *)
(***************************************************************************)
\* Index of the port flag on which parsing stopped: the last token when its
\* value is missing, the flag of the value that did not parse otherwise.
StopIndex(args) ==
  IF parse_cli_args_from(args).port_error = Some(S_MissingPort) THEN Len(args)
  ELSE OffendingFlagIndex(args)

\* C28: when the result carries a port error, it is the parse of the tokens
\* before the failing port flag plus the error: inspect, help and version
\* are set exactly by the tokens before that flag, input_path and extra_args
\* hold only tokens from before it, port is what those tokens left, and a
\* token after a value that did not parse changes nothing in the result.
C28_StopsAtPortError ==
  (cpc = "parsed" /\ cli.port_error # None) =>
    LET k == StopIndex(argv)
        before == parse_cli_args_from(SubSeq(argv, 1, k - 1))
    IN /\ before.port_error = None
       /\ cli = [before EXCEPT !.port_error = cli.port_error]
       /\ cli.inspect <=> \E i \in 1..(k - 1) : argv[i] = S_Inspect
       /\ cli.help <=> \E i \in 1..(k - 1) : argv[i] \in {S_Help, S_H}
       /\ cli.version <=> \E i \in 1..(k - 1) : argv[i] \in {S_Version, S_V}
       /\ Len(cli.input_path) + Len(cli.extra_args) <= k - 1
       /\ HasInvalidPortError(cli)
            => \A tok \in Tokens : parse_cli_args_from(Append(argv, tok)) = cli

\* Help was requested, then a port value did not parse, then --inspect
\* followed: help is set, inspect is not.
C28_Witness ==
  /\ cpc = "parsed"
  /\ Len(argv) = 3
  /\ argv[1] = S_Help
  /\ argv[3] = S_Inspect
  /\ HasInvalidPortError(cli)
  /\ cli.help
  /\ ~cli.inspect


(***************************************************************************)
(* The drain threads of the child's pipes: spawn_backend takes the child's *)
(* stdout and stderr and starts pipe_output on each; the child writes      *)
(* lines and closes its ends.  A line is its text and whether its bytes    *)
(* are valid UTF-8.                                                        *)
(***************************************************************************)
MaxLines == 2

Lines ==
  { [text |-> "ready", utf8 |-> TRUE], [text |-> "warn", utf8 |-> TRUE],
    [text |-> "raw", utf8 |-> FALSE] }

\* Everything but the pipes and the drain threads.
pipeFrame ==
  <<cliVars, platform, foreign, backend_port, resources, link, spawnError, inst, linkTarget, within, help_result,
    inputKind, current_dir, command, top_level_path, base_dir, etcResults, threadVars,
    handleVars, procVars, waitVars, guiVars, countVars, exitCode>>

PipeInit ==
  /\ argv = <<>>
  /\ cli = CliArgsDefault
  /\ vres = [done |-> FALSE, err |-> None]
  /\ cpc = "args"
  /\ pc = [t \in Threads |-> "idle"]
  /\ resources = ResourcesPresent
  /\ link = "absent"
  /\ SupervisorInit

\* if let Some(stdout) = child.stdout.take() { pipe_output(stdout, false); }
\* if let Some(stderr) = child.stderr.take() { pipe_output(stderr, true); }
PipeSpawn ==
  /\ \A s \in Streams : drain[s] = "none"
  /\ pipeOpen' = [s \in Streams |-> TRUE]
  /\ drain' = [s \in Streams |-> "running"]
  /\ UNCHANGED <<pipeLines, childWrote, launcherOut, pipeFrame>>

\* The child writes a line to one of its streams.  Once the drain thread
\* has ended the read end is dropped and what is written reaches nobody.
ChildWrite(s, line) ==
  /\ pipeOpen[s]
  /\ Len(childWrote[s]) < MaxLines
  /\ childWrote' = [childWrote EXCEPT ![s] = Append(@, line)]
  /\ pipeLines' = [pipeLines EXCEPT ![s] = IF drain[s] = "running" THEN Append(@, line) ELSE @]
  /\ UNCHANGED <<pipeOpen, drain, launcherOut, pipeFrame>>

\* The child closes a stream (or exits).
ChildClose(s) ==
  /\ pipeOpen[s]
  /\ pipeOpen' = [pipeOpen EXCEPT ![s] = FALSE]
  /\ UNCHANGED <<pipeLines, drain, childWrote, launcherOut, pipeFrame>>

\* BufRead::lines(): Ok(text) for a line of valid UTF-8, Err otherwise;
\* Result::ok turns it into an Option.
ReadLine(line) == IF line.utf8 THEN Some(line.text) ELSE None

\* One turn of `for line in buf.lines().map_while(Result::ok)`: the next
\* line is printed with println! or eprintln!; the loop ends at end of file
\* and at the first line that is an Err, and the reader is dropped with it.
\* With nothing to read and the pipe open the thread blocks.
pipe_output(s, is_stderr) ==
  /\ drain[s] = "running"
  /\ IF pipeLines[s] # <<>>
     THEN IF ReadLine(pipeLines[s][1]) # None
          THEN /\ pipeLines' = [pipeLines EXCEPT ![s] = Tail(@)]
               /\ launcherOut' =
                    [launcherOut EXCEPT ![IF is_stderr THEN "stderr" ELSE "stdout"] =
                       Append(@, ReadLine(pipeLines[s][1])[1])]
               /\ UNCHANGED drain
          ELSE /\ drain' = [drain EXCEPT ![s] = "ended"]
               /\ pipeLines' = [pipeLines EXCEPT ![s] = <<>>]
               /\ UNCHANGED launcherOut
     ELSE /\ ~pipeOpen[s]
          /\ drain' = [drain EXCEPT ![s] = "ended"]
          /\ UNCHANGED <<pipeLines, launcherOut>>
  /\ UNCHANGED <<pipeOpen, childWrote, pipeFrame>>

PipeNext ==
  \/ PipeSpawn
  \/ \E s \in Streams, line \in Lines : ChildWrite(s, line)
  \/ \E s \in Streams : ChildClose(s)
  \/ \E s \in Streams : pipe_output(s, s = "stderr")

SpecPipe == PipeInit /\ [][PipeNext]_vars

\* The texts of a sequence of lines.
Texts(lines) == [i \in 1..Len(lines) |-> lines[i].text]

\* C30: a drain thread ends only after the child has closed the pipe, and
\* the lines printed to the matching launcher stream followed by the lines
\* still in the pipe are the lines the child wrote, in order.
C30_DrainsUntilPipeCloses ==
  \A s \in Streams :
    /\ drain[s] = "ended" => ~pipeOpen[s]
    /\ drain[s] # "none" => launcherOut[s] \o Texts(pipeLines[s]) = Texts(childWrote[s])

\* What holds of the drain threads: each prints to its own stream, in order,
\* the lines the child wrote before the first line that is not valid UTF-8,
\* and ends early only at such a line.
C30_ForwardsUntilFirstUnreadable ==
  \A s \in Streams :
    /\ \E n \in 0..Len(childWrote[s]) :
         /\ launcherOut[s] = Texts(SubSeq(childWrote[s], 1, n))
         /\ \A i \in 1..n : childWrote[s][i].utf8
    /\ (drain[s] = "ended" /\ pipeOpen[s])
         => \E i \in 1..Len(childWrote[s]) :
              /\ ~childWrote[s][i].utf8
              /\ launcherOut[s] = Texts(SubSeq(childWrote[s], 1, i - 1))


(***************************************************************************)
(* What run_backend_help prints.                                           *)
(***************************************************************************)
\* run_backend_help has returned Ok.
HelpSucceeded == help_result = "ok"

\* C31 (as amended): when run_backend_help returns success, the launcher's
\* standard output holds the backend's own output followed, for a help
\* request only, by the launcher's usage lines; for a version request
\* (cli.version, also when help was requested with it) the backend ran with
\* --version and nothing follows its output.
C31_UsageLinesOnlyForHelp ==
  HelpSucceeded =>
    launcherOut["stdout"] =
      (IF cli.version THEN <<BackendStdout("--version")>>
       ELSE <<BackendStdout("--help")>> \o UsageLines)

\* A version request has succeeded and only the backend's version output was
\* printed.
C31_Witness ==
  /\ HelpSucceeded
  /\ cli.version
  /\ exitCode = 0
  /\ launcherOut["stdout"] = <<BackendStdout("--version")>>

\* C31 as stated: after success the backend's output is followed by the
\* usage lines, for help and for version.
C31_UsageLinesAlways ==
  HelpSucceeded =>
    /\ Len(launcherOut["stdout"]) = 1 + Len(UsageLines)
    /\ SubSeq(launcherOut["stdout"], 2, Len(launcherOut["stdout"])) = UsageLines


(***************************************************************************)
(* The passthrough list in execution-layer form.                           *)
(***************************************************************************)
IsFolderFlag(tok) == tok \in {S_TopLevelFolder, S_FrontendFolder}

\* The token at index i is the value of the folder flag before it: that
\* token is a folder flag and is not itself the value of one.
RECURSIVE IsFolderValueAt(_, _)
IsFolderValueAt(args, i) ==
  /\ i > 1
  /\ IsFolderFlag(args[i - 1])
  /\ ~IsFolderValueAt(args, i - 1)

\* The execution-layer form of a folder value: kept when it starts with
\* '/', otherwise made absolute against cwd and written as
\* /mnt/<drive letter>/<rest> with '/' for every '\'.
ExecutionLayerForm(value, cwd) ==
  IF value # <<>> /\ value[1] = "/" THEN value
  ELSE LET abs == IF Len(value) >= 3 /\ value[2] = ":" /\ value[3] = "\\" THEN value
                  ELSE cwd \o <<"\\">> \o value
       IN <<"/", "m", "n", "t", "/">> \o <<ToAsciiLowercase(abs[1])>>
          \o [k \in 1..(Len(abs) - 2) |-> IF abs[k + 2] = "\\" THEN "/" ELSE abs[k + 2]]

\* What the claim expects in place of the token at index i.
ExpectedPassthrough(args, i, cwd) ==
  IF IsFolderValueAt(args, i) THEN ExecutionLayerForm(args[i], cwd)
  ELSE IF StartsWith(args[i], S_TopLevelFolderEq)
  THEN S_TopLevelFolderEq
       \o ExecutionLayerForm(SubSeq(args[i], Len(S_TopLevelFolderEq) + 1, Len(args[i])), cwd)
  ELSE IF StartsWith(args[i], S_FrontendFolderEq)
  THEN S_FrontendFolderEq
       \o ExecutionLayerForm(SubSeq(args[i], Len(S_FrontendFolderEq) + 1, Len(args[i])), cwd)
  ELSE args[i]

\* C32: on the Windows build, for a passthrough list that is spawned with,
\* normalize_backend_args_for_wsl succeeds with a list of the same length
\* and order in which the token after a --top_level_folder or
\* --frontend_folder flag and the inline value of such a flag are in
\* execution-layer form and every other token is unchanged; these are the
\* words the backend receives after --no_browser.
C32_OnlyFolderValuesTranslated ==
  (platform = "windows" /\ command # None) =>
    LET r == normalize_backend_args_for_wsl(cli.extra_args, current_dir)
        n == Len(cli.extra_args)
        words == SpawnedWords
    IN /\ r.err = None
       /\ Len(r.args) = n
       /\ \A i \in 1..n : r.args[i] = ExpectedPassthrough(cli.extra_args, i, current_dir)
       /\ Len(words) = 5 + n
       /\ \A i \in 1..n : words[5 + i] = r.args[i]

\* The backend was started on Windows with --top_level_folder followed by a
\* value in WSL form, which it received as written.
C32_Witness ==
  /\ platform = "windows"
  /\ command # None
  /\ cli.extra_args = <<S_TopLevelFolder, <<"/", "e">>>>
  /\ SpawnedWords[7] = <<"/", "e">>


(***************************************************************************)
(* wsl_path_is_within on every pair of short texts over '/', 'a' and 'b'.  *)
(***************************************************************************)
MaxPathLen == 3

PathChars == {"/", "a", "b"}

WithinInit ==
  /\ argv = <<>>
  /\ cli = CliArgsDefault
  /\ vres = [done |-> FALSE, err |-> None]
  /\ cpc = "args"
  /\ pc = [t \in Threads |-> "idle"]
  /\ resources = ResourcesPresent
  /\ link = "absent"
  /\ platform = "windows"
  /\ current_dir = CwdText(platform)
  /\ foreign = FALSE
  /\ backend_port = 0
  /\ spawnError = None
  /\ inst = [l \in Launchers |-> [pc |-> "idle", result |-> None]]
  /\ linkTarget = "absent"
  /\ within = None
  /\ launcherOut = [s \in Streams |-> <<>>]
  /\ childWrote = [s \in Streams |-> <<>>]
  /\ drain = [s \in Streams |-> "none"]
  /\ pipeOpen = [s \in Streams |-> FALSE]
  /\ pipeLines = [s \in Streams |-> <<>>]
  /\ help_result = "none"
  /\ inputKind = "file"
  /\ command = None
  /\ top_level_path \in SeqsUpTo(PathChars, MaxPathLen)
  /\ base_dir \in SeqsUpTo(PathChars, MaxPathLen)
  /\ etcResults = <<>>
  /\ caller = [t \in Threads |-> "none"]
  /\ taken = [t \in Threads |-> FALSE]
  /\ calls = [t \in Threads |-> 0]
  /\ backend = "None"
  /\ lockHolder = "free"
  /\ child = "none"
  /\ listening = FALSE
  /\ elapsed = 0
  /\ lastError = None
  /\ waitResult = WaitPending
  /\ earlyExit = FALSE
  /\ windows = 0
  /\ readyPending = FALSE
  /\ exitRequested = FALSE
  /\ exitCode = -1
  /\ spawns = 0
  /\ kills = 0
  /\ waits = 0
  /\ sdCalls = 0
  /\ overwrote = FALSE

\* wsl_path_is_within(&base_wsl, &top_wsl)
WithinCheck ==
  /\ within = None
  /\ within' = Some(wsl_path_is_within(base_dir, top_level_path))
  /\ UNCHANGED <<cliVars, platform, foreign, backend_port, resources, link, spawnError, inst, linkTarget,
                 launcherOut, childWrote, drain, pipeOpen, pipeLines, help_result, inputKind,
                 current_dir, command, top_level_path, base_dir, etcResults, threadVars,
                 handleVars, procVars, waitVars, guiVars, countVars, exitCode>>

WithinNext == WithinCheck

SpecWithin == WithinInit /\ [][WithinNext]_vars

\* The text without its trailing slashes.
WithoutTrailingSlashes(path) ==
  IF \E k \in 1..Len(path) : path[k] # "/"
  THEN SubSeq(path, 1, CHOOSE k \in 1..Len(path) :
                         path[k] # "/" /\ \A j \in (k + 1)..Len(path) : path[j] = "/")
  ELSE <<>>

\* top ends where a '/' of base begins: it is the text before one of the
\* separators of base.
IsAncestorAtBoundary(base, top) ==
  \E k \in 1..Len(base) : base[k] = "/" /\ SubSeq(base, 1, k - 1) = top

\* C33: wsl_path_is_within(base, top) is true exactly when, without their
\* trailing slashes, base equals top or top is the text before one of the
\* '/' of base; so the root contains every path that starts with '/', and a
\* top that ends inside a component of base does not contain it.
C33_WithinAtComponentBoundary ==
  within # None =>
    LET base == WithoutTrailingSlashes(base_dir)
        top == WithoutTrailingSlashes(top_level_path)
    IN /\ within[1] <=> (base = top \/ IsAncestorAtBoundary(base, top))
       /\ (top_level_path = S_Slash /\ base_dir # <<>> /\ base_dir[1] = "/") => within[1]
       /\ (base # top /\ Len(base) > Len(top) /\ base[Len(top) + 1] # "/") => ~within[1]

\* /ab was found not to be within /a although /a is a prefix of its text.
C33_Witness ==
  /\ within = Some(FALSE)
  /\ base_dir = <<"/", "a", "b">>
  /\ top_level_path = <<"/", "a">>


(***************************************************************************)
(* spawn_backend on the Windows build with paths that do not translate: a  *)
(* resource directory or a base directory on a share, a folder option      *)
(* whose value is on a share, and installations with and without           *)
(* backend/libs.                                                           *)
(***************************************************************************)
S_ShareDir == <<"\\","\\","s","r","v","\\","d">>

BridgeBaseDirs == {CwdText("windows"), S_ShareDir}

BridgeExtraArgs ==
  {<<>>, <<S_TopLevelFolderEq \o <<"x">>>>, <<S_TopLevelFolderEq \o S_ShareDir>>,
   <<S_FrontendFolder, S_ShareDir>>}

BridgeInit ==
  /\ platform = "windows"
  /\ current_dir = CwdText(platform)
  /\ inputKind = "file"
  /\ \E extra \in BridgeExtraArgs : argv = <<S_DashDash, T_file>> \o extra
  /\ cli = parse_cli_args_from(argv)
  /\ vres = [done |-> TRUE, err |-> None]
  /\ cpc = "run"
  /\ pc = [t \in Threads |-> IF t = "main" THEN "spawn" ELSE "idle"]
  /\ resources \in {res \in ResourceStates :
                      res.resource_dir /\ res.backend /\ res.frontend /\ res.link_writable}
  /\ link \in {"absent", "occupied"}
  /\ foreign = FALSE
  /\ backend_port \in PickablePorts
  /\ spawnError = None
  /\ inst = [l \in Launchers |-> [pc |-> "idle", result |-> None]]
  /\ linkTarget = "absent"
  /\ within = None
  /\ launcherOut = [s \in Streams |-> <<>>]
  /\ childWrote = [s \in Streams |-> <<>>]
  /\ drain = [s \in Streams |-> "none"]
  /\ pipeOpen = [s \in Streams |-> FALSE]
  /\ pipeLines = [s \in Streams |-> <<>>]
  /\ help_result = "none"
  /\ command = None
  /\ top_level_path = S_Slash
  /\ base_dir \in BridgeBaseDirs
  /\ etcResults = <<>>
  /\ caller = [t \in Threads |-> "none"]
  /\ taken = [t \in Threads |-> FALSE]
  /\ calls = [t \in Threads |-> 0]
  /\ backend = "None"
  /\ lockHolder = "free"
  /\ child = "none"
  /\ listening = FALSE
  /\ elapsed = 0
  /\ lastError = None
  /\ waitResult = WaitPending
  /\ earlyExit = FALSE
  /\ windows = 0
  /\ readyPending = FALSE
  /\ exitRequested = FALSE
  /\ exitCode = -1
  /\ spawns = 0
  /\ kills = 0
  /\ waits = 0
  /\ sdCalls = 0
  /\ overwrote = FALSE

SpecBridge == BridgeInit /\ [][LaunchNext]_vars

\* Every path the bridge requires translates: the executable, the frontend
\* directory, the base directory and every folder value of the passthrough
\* list.
RequiredPathsTranslate ==
  /\ to_wsl_path_str(BackendPathText(platform, resources)) # None
  /\ to_wsl_path_str(FrontendPathText(platform, resources)) # None
  /\ to_wsl_path_str(base_dir) # None
  /\ normalize_backend_args_for_wsl(cli.extra_args, current_dir).err = None

\* The native-library directory exists and translates.
LibsTranslate ==
  /\ resolve_libs_path(platform, resources) # None
  /\ win_to_wsl_path(resolve_libs_path(platform, resources)[1]) # None

\* C34: on the Windows build, when a required path does not translate
\* spawn_backend returns an error (the conversion error, unless resolving
\* the etc directory failed before a folder value was looked at) and
\* nothing was spawned; a
\* command is only ever spawned with every required path translated, with or
\* without the native-library directory, and its line starts with the
\* LD_LIBRARY_PATH export exactly when that directory exists and translates.
\* When the required paths translate, a failure is never a conversion error.
C34_RequiredTranslationsAbort ==
  /\ (SpawnReturned /\ ~RequiredPathsTranslate)
       => /\ spawnError # None
          /\ (resources.etc /\ ~resources.etc_space)
               => spawnError = Some("Failed to convert path to WSL format")
          /\ to_wsl_path_str(base_dir) = None
               => spawnError = Some("Failed to convert path to WSL format")
          /\ spawns = 0 /\ child = "none" /\ backend = "None" /\ command = None
  /\ command # None
       => /\ RequiredPathsTranslate
          /\ StartsWith(command[1].line, S_ExportLibs) <=> LibsTranslate
          /\ ~LibsTranslate => StartsWith(command[1].line, S_ExportToken)
  /\ (SpawnReturned /\ RequiredPathsTranslate)
       => spawnError # Some("Failed to convert path to WSL format")

\* Without backend/libs the backend was spawned, by a line that starts with
\* the token export.
C34_Witness ==
  /\ ~resources.libs
  /\ command # None
  /\ child = "running"
  /\ StartsWith(command[1].line, S_ExportToken)


(***************************************************************************)
(* wait_for_backend on thread "main" while thread "menu" handles Quit:     *)
(* shutdown_backend may clear the handle in the middle of the poll.        *)
(***************************************************************************)
\* The state right after spawn_backend returned Ok, wait_for_backend called.
PollInit ==
  /\ argv = <<>>
  /\ cli = parse_cli_args_from(<<>>)
  /\ vres = [done |-> TRUE, err |-> None]
  /\ cpc = "run"
  /\ platform = "linux"
  /\ current_dir = CwdText(platform)
  /\ foreign \in BOOLEAN
  /\ backend_port \in PickablePorts
  /\ resources = ResourcesPresent
  /\ link = "absent"
  /\ spawnError = None
  /\ inst = [l \in Launchers |-> [pc |-> "idle", result |-> None]]
  /\ linkTarget = "absent"
  /\ within = None
  /\ launcherOut = [s \in Streams |-> <<>>]
  /\ childWrote = [s \in Streams |-> <<>>]
  /\ drain = [s \in Streams |-> "none"]
  /\ pipeOpen = [s \in Streams |-> FALSE]
  /\ pipeLines = [s \in Streams |-> <<>>]
  /\ help_result = "none"
  /\ inputKind = "file"
  /\ command = None
  /\ top_level_path = <<>>
  /\ base_dir = <<>>
  /\ etcResults = <<>>
  /\ pc = [t \in Threads |-> IF t = "main" THEN "wait_start" ELSE "idle"]
  /\ caller = [t \in Threads |-> "none"]
  /\ taken = [t \in Threads |-> FALSE]
  /\ calls = [t \in Threads |-> 0]
  /\ backend = "Some"
  /\ lockHolder = "free"
  /\ child = "running"
  /\ listening = FALSE
  /\ elapsed = 0
  /\ lastError = None
  /\ waitResult = WaitPending
  /\ earlyExit = FALSE
  /\ windows = 0
  /\ readyPending = FALSE
  /\ exitRequested = FALSE
  /\ exitCode = -1
  /\ spawns = 1
  /\ kills = 0
  /\ waits = 0
  /\ sdCalls = 0
  /\ overwrote = FALSE

\* Quit is chosen while wait_for_backend has not returned.
PollQuit ==
  /\ pc[M] # "wait_ret"
  /\ ConcCall("menu")

PollNext ==
  \/ WaitStart(M)
  \/ WaitCond(M)
  \/ WaitCheck(M)
  \/ WaitProbe(M)
  \/ WaitSleep(M)
  \/ PollQuit
  \/ SdTake("menu")
  \/ SdKill("menu")
  \/ SdWait("menu")
  \/ AppExit("menu")
  \/ BackendListens
  \/ BackendExits

SpecPoll == PollInit /\ [][PollNext]_vars

\* shutdown_backend has cleared the handle.
HandleCleared == backend = "None" /\ kills >= 1

\* wait_for_backend returns in this step.
WaitReturns == pc[M] # "wait_ret" /\ pc'[M] = "wait_ret"

\* C35: no step of shutdown_backend moves wait_for_backend, and once the
\* handle is cleared wait_for_backend never reports an exit: it goes on
\* round the loop and returns only Ok after a probe that connected, or the
\* not-ready error after the loop condition found the timeout elapsed.
C35_PollNotCancelled ==
  [][/\ (pc["menu"] # pc'["menu"]) => pc'[M] = pc[M]
     /\ (HandleCleared /\ WaitReturns)
          => \/ /\ pc[M] = "wait_probe"
                /\ PortAccepts
                /\ waitResult'.kind = "Ok"
             \/ /\ pc[M] = "wait_cond"
                /\ elapsed >= Timeout
                /\ waitResult'.kind = "NotReady"
     /\ (HandleCleared /\ pc[M] = "wait_check" /\ pc'[M] # pc[M]) => pc'[M] = "wait_probe"
    ]_vars

\* Quit has been handled and the handle is empty, the child killed and
\* reaped, and wait_for_backend is at a probe well into its poll.
C35_Witness ==
  /\ HandleCleared
  /\ child = "reaped"
  /\ pc["menu"] = "idle"
  /\ pc[M] = "wait_probe"
  /\ elapsed >= 1000
  /\ waitResult = WaitPending

(***************************************************************************)
(* resolve_etc_path (unix) in two launcher instances at once.  Each        *)
(* instance runs from its own installation; both etc paths contain a       *)
(* space, so both go to the one symlink location /tmp/carta-etc.  Every    *)
(* file-system call is a step of its own.                                  *)
(***************************************************************************)
\* What is at the symlink location: nothing, a symlink to the etc directory
\* of one of the two launchers, a symlink to some other place, or something
\* that is not a symlink.
LinkTargets == {"absent", "elsewhere", "occupied"} \cup Launchers

\* Everything but the two instances and the symlink location.
raceFrame ==
  <<cliVars, platform, foreign, backend_port, resources, link, spawnError, within, launcherOut,
    childWrote, drain, pipeOpen, pipeLines, help_result, inputKind, current_dir, command,
    top_level_path, base_dir, etcResults, threadVars, handleVars, procVars, waitVars,
    guiVars, countVars, exitCode>>

S_SymlinkExists == "symlink path already exists"
S_SymlinkFailed == "failed to create symlink for etc path with spaces"

\* Both instances have found that their etc path contains a space.
RaceInit ==
  /\ argv = <<>>
  /\ cli = CliArgsDefault
  /\ vres = [done |-> FALSE, err |-> None]
  /\ cpc = "race"
  /\ pc = [t \in Threads |-> "idle"]
  /\ resources = [ResourcesPresent EXCEPT !.etc_space = TRUE]
  /\ link = "absent"
  /\ platform \in {"linux", "macos"}
  /\ current_dir = CwdText(platform)
  /\ foreign = FALSE
  /\ backend_port = 0
  /\ spawnError = None
  /\ inst = [l \in Launchers |-> [pc |-> "create_dir", result |-> None]]
  /\ linkTarget \in LinkTargets
  /\ within = None
  /\ launcherOut = [s \in Streams |-> <<>>]
  /\ childWrote = [s \in Streams |-> <<>>]
  /\ drain = [s \in Streams |-> "none"]
  /\ pipeOpen = [s \in Streams |-> FALSE]
  /\ pipeLines = [s \in Streams |-> <<>>]
  /\ help_result = "none"
  /\ inputKind = "file"
  /\ command = None
  /\ top_level_path = <<>>
  /\ base_dir = <<>>
  /\ etcResults = <<>>
  /\ caller = [t \in Threads |-> "none"]
  /\ taken = [t \in Threads |-> FALSE]
  /\ calls = [t \in Threads |-> 0]
  /\ backend = "None"
  /\ lockHolder = "free"
  /\ child = "none"
  /\ listening = FALSE
  /\ elapsed = 0
  /\ lastError = None
  /\ waitResult = WaitPending
  /\ earlyExit = FALSE
  /\ windows = 0
  /\ readyPending = FALSE
  /\ exitRequested = FALSE
  /\ exitCode = -1
  /\ spawns = 0
  /\ kills = 0
  /\ waits = 0
  /\ sdCalls = 0
  /\ overwrote = FALSE

\* Instance l returns r from resolve_etc_path.
RaceReturn(l, r) == inst' = [inst EXCEPT ![l] = [pc |-> "done", result |-> Some(r)]]

\* let _ = fs::create_dir_all(&base_dir): /tmp is there, nothing changes.
RaceCreateDir(l) ==
  /\ inst[l].pc = "create_dir"
  /\ inst' = [inst EXCEPT ![l].pc = "metadata"]
  /\ UNCHANGED linkTarget

\* if let Ok(metadata) = fs::symlink_metadata(&link_path) {
\*     if !metadata.file_type().is_symlink() { return Err(..) }
RaceMetadata(l) ==
  /\ inst[l].pc = "metadata"
  /\ IF linkTarget = "absent"
     THEN inst' = [inst EXCEPT ![l].pc = "symlink"]
     ELSE IF linkTarget = "occupied"
     THEN RaceReturn(l, [err |-> Some(S_SymlinkExists), path |-> "none"])
     ELSE inst' = [inst EXCEPT ![l].pc = "read_link"]
  /\ UNCHANGED linkTarget

\* if let Ok(existing) = fs::read_link(&link_path) && existing == resolved {
\*     return Ok(link_path) }
\* read_link fails when the link has been removed in the meantime.
RaceReadLink(l) ==
  /\ inst[l].pc = "read_link"
  /\ IF linkTarget = l
     THEN RaceReturn(l, [err |-> None, path |-> "link"])
     ELSE inst' = [inst EXCEPT ![l].pc = "remove"]
  /\ UNCHANGED linkTarget

\* Mutant of RaceRemove: a symlink with another target is left in place.
RaceRemoveSkipped(l) ==
  /\ inst[l].pc = "remove"
  /\ inst' = [inst EXCEPT ![l].pc = "symlink"]
  /\ UNCHANGED linkTarget

\* let _ = fs::remove_file(&link_path);
RaceRemove(l) ==
  /\ inst[l].pc = "remove"
  /\ inst' = [inst EXCEPT ![l].pc = "symlink"]
  /\ linkTarget' = IF linkTarget \in Launchers \cup {"elsewhere"} THEN "absent"
                   ELSE linkTarget

\* if std::os::unix::fs::symlink(&resolved, &link_path).is_ok() { Ok(link_path) }
\* else { Err(..) }: symlink(2) fails when the name exists.
RaceSymlink(l) ==
  /\ inst[l].pc = "symlink"
  /\ IF linkTarget = "absent"
     THEN /\ linkTarget' = l
          /\ RaceReturn(l, [err |-> None, path |-> "link"])
     ELSE /\ UNCHANGED linkTarget
          /\ RaceReturn(l, [err |-> Some(S_SymlinkFailed), path |-> "none"])

RaceStep(l) ==
  /\ \/ RaceCreateDir(l)
     \/ RaceMetadata(l)
     \/ RaceReadLink(l)
     \/ RaceRemove(l)
     \/ RaceSymlink(l)
  /\ UNCHANGED raceFrame

RaceNext == \E l \in Launchers : RaceStep(l)

SpecRace == RaceInit /\ [][RaceNext]_vars

\* Instance l has returned with this error / with the symlink path.
RaceFailed(l, msg) == inst[l].result # None /\ inst[l].result[1].err = Some(msg)
RaceGotLink(l) ==
  inst[l].result # None /\ inst[l].result[1].err = None /\ inst[l].result[1].path = "link"

\* C36: two launcher instances that resolve different space-containing etc
\* directories at once race on the one symlink location.  An instance
\* returns the symlink path only at a step where the link targets its own
\* directory, and it fails to create the link only when the link the other
\* instance created is in the way, whatever was at the location before;
\* but the link has one target, so once both have returned the symlink
\* path, one of them holds a path that leads to the other's directory.
C36_RaceOnLinkLocation ==
  /\ []((\A l \in Launchers : RaceGotLink(l)) => linkTarget \in Launchers)
  /\ [][\A l \in Launchers :
          (inst[l].result = None /\ inst'[l].result # None)
            => LET r == inst'[l].result[1]
               IN /\ r.err = None => (r.path = "link" /\ linkTarget' = l)
                  /\ r.err = Some(S_SymlinkFailed)
                       => (linkTarget \in Launchers \ {l} /\ linkTarget' = linkTarget)
                  /\ r.err = Some(S_SymlinkExists) => linkTarget = "occupied"
                  /\ r.err \in {None, Some(S_SymlinkFailed), Some(S_SymlinkExists)}]_vars

\* Both instances returned the symlink path and the link targets the
\* second one's directory: the first one's path leads to the wrong place.
C36_Witness ==
  /\ RaceGotLink("first")
  /\ RaceGotLink("second")
  /\ linkTarget = "second"

\* The other outcome of the race: the first instance got the link, the
\* second one failed to create it.
C36_CreateFails ==
  /\ RaceGotLink("first")
  /\ RaceFailed("second", S_SymlinkFailed)
  /\ linkTarget = "first"

(***************************************************************************)
(* The parser and the validator together, as run() chains them.            *)
(***************************************************************************)
\* validate_backend_args(&cli.extra_args) of the parse of args fails.
LaunchFailsValidation(args) ==
  validate_backend_args(parse_cli_args_from(args).extra_args) # None

\* C37: end to end, the tokens after a "--" separator are opaque: when the
\* parser reached the separator and validation of the parsed pass-through
\* list fails, it fails for the tokens before the separator alone as well.
C37_AfterSeparatorNeverFails ==
  (cpc = "validated" /\ HasSeparator(argv) /\ cli.port_error = None /\ vres.err # None)
    => LaunchFailsValidation(SubSeq(argv, 1, SeparatorIndex(argv) - 1))

\* ["--", "file", "--foo"]: the parser drops the separator and hands
\* ["--foo"] to the validator, which rejects it.
C37_RejectedAfterSeparator ==
  /\ cpc = "validated"
  /\ argv = <<S_DashDash, T_file, T_foo>>
  /\ cli.input_path = Some(T_file)
  /\ cli.extra_args = <<T_foo>>
  /\ vres.err # None
  /\ StartsWith(vres.err[1], S_Unsupported)

\* A --port or -p option, with or without an inline value.
IsPortOption(tok) == SplitName(tok).name \in {S_Port, S_P}

\* run() goes on to spawn_backend: no port error, no help or version
\* request, and validate_backend_args(&extra_args) passed.
LaunchSpawns ==
  /\ cpc = "validated"
  /\ cli.port_error = None
  /\ ~cli.help
  /\ ~cli.version
  /\ vres.err = None

\* The ports AppState.backend_port can hold for the parsed arguments.
BackendPorts == IF cli.port # None THEN {cli.port[1]} ELSE PickablePorts

\* The arguments of the spawned backend on a complete installation.
SpawnedArgs(port) ==
  BackendArgs(CwdText(platform), port, FrontendPathText(platform, ResourcesPresent),
              cli.extra_args)

\* C38: for every argument list that leads to a spawn, the only port option
\* on the backend command line is the launcher's own --port=<backend_port>.
C38_OnlyLauncherPort ==
  LaunchSpawns =>
    \A port \in BackendPorts :
      LET args == SpawnedArgs(port)
      IN \A i \in 1..Len(args) :
           IsPortOption(args[i]) => (i = 2 /\ args[i] = S_PortEq \o ToDecimal(port))

\* ["--", "file", "--port=3003"]: validation passes and the backend is
\* given a second port option after the launcher's.
C38_SecondPortOption ==
  /\ LaunchSpawns
  /\ argv = <<S_DashDash, T_file, T_port3003>>
  /\ cli.port = None
  /\ cli.extra_args = <<T_port3003>>
  /\ \A port \in BackendPorts : SpawnedArgs(port)[5] = T_port3003

\* Thread t is inside the body of shutdown_backend's `if let`.
InShutdownBody(t) == pc[t] \in {"sd_kill", "sd_wait"}

\* Thread t gets past a lock().unwrap() of AppState.backend in this step:
\* the one of shutdown_backend or the one of wait_for_backend.
AcquiresLock(t) == pc[t] \in {"sd_lock", "wait_check"} /\ pc'[t] # pc[t]

\* C39: shutdown_backend holds the handle lock from taking the child out of
\* the handle until kill and wait have returned, although the handle is
\* cleared before the kill: a thread in the body holds the lock with the
\* handle empty, and a thread that acquires the lock and finds the handle
\* of a spawned child empty finds the child killed and reaped.
C39_LockHeldOverKillAndWait ==
  /\ [](\A t \in Threads : InShutdownBody(t) => (lockHolder = t /\ backend = "None"))
  /\ [][\A t \in Threads :
          (AcquiresLock(t) /\ backend = "None" /\ spawns >= 1)
            => (child = "reaped" /\ kills >= 1 /\ waits >= 1)]_vars

\* The Quit handler has taken the child and not yet issued the kill: the
\* handle is empty, the child runs, and the poller is at its lock().
C39_Witness ==
  /\ pc["menu"] = "sd_kill"
  /\ lockHolder = "menu"
  /\ backend = "None"
  /\ child = "running"
  /\ kills = 0
  /\ pc[M] = "wait_check"

\* The validator's test for a token it validates as an option (line 229);
\* a token that fails it is positional.
IsOptionToken(tok) == StartsWith(tok, S_DashDash) \/ (StartsWith(tok, S_Dash) /\ tok # S_Dash)

\* C40: the validator uses one notion of flag-shaped: a token it treats as
\* positional when it stands alone ("-" in particular) is accepted as the
\* value of a value-requiring option, and validation goes on after it.
C40_PositionalAcceptedAsValue ==
  cpc = "validated_raw" =>
    \A i \in 1..(Len(argv) - 1) :
      (/\ IsValidatedOption(argv, i)
       /\ RequiresValue(OptionName(argv[i]))
       /\ ~HasInlineValue(argv[i])
       /\ ~IsOptionToken(argv[i + 1]))
        => vres.err = validate_backend_args(After(argv, i + 1))

\* ["-"] passes as a positional argument.
C40_DashIsPositional ==
  /\ cpc = "validated_raw"
  /\ argv = <<S_Dash>>
  /\ vres.err = None

\* ["--threads", "-"] is rejected: the lookahead only asks starts_with('-').
C40_DashRejectedAsValue ==
  /\ cpc = "validated_raw"
  /\ argv = <<T_threads, S_Dash>>
  /\ vres.err = Some(S_BackendOption \o T_threads \o S_RequiresValue)
=============================================================================
